---- MODULE Spec2Model ----
(***************************************************************************)
(* btrbk_restore: restore of Btrfs subvolumes from btrbk snapshots.        *)
(*                                                                         *)
(* The repository ships three terminal front-ends over the same pool:      *)
(*   "pro"  btrbk_restore_tui_pro.py  (Config, SnapshotManager, TUIApp)    *)
(*   "cli"  btrbk_restore.py          (numbered menu, one restore per run) *)
(*   "tui"  btrbk_restore_tui.py      (first generation two column TUI)    *)
(* A behaviour of Spec is one run of one of them (variable `variant`).     *)
(*                                                                         *)
(* Names are Python strings.  The pool is a tree of subvolumes, kept as a  *)
(* function from paths (sequences of names below the pool directory) to    *)
(* the identity of the data held there.                                    *)
(***************************************************************************)
EXTENDS Integers, Sequences, FiniteSets, TLC

VARIABLES
    variant,          \* which front-end this run is
    display_name,     \* the entry formatted last for display, and as what
    snaps,            \* directory names present in the snapshots directory
    pool,             \* subvolume tree below the pool directory: path -> content
    clock,            \* wall clock in seconds, as read by datetime.now()
    calls,            \* primitives invoked by the most recent restore, in order
    last,             \* what the most recent restore was asked and what it returned
    restores,         \* restores run so far
    cloned,           \* some restore so far got through its rename and its clone
    config,           \* Config.data (pro); the directory settings of the run
    config_file,      \* CONFIG_FILE: whether it is there and what it holds
    writable,         \* whether CONFIG_FILE can be opened for writing
    process,          \* create_snapshot: the btrbk child and its output pipe
    output_lines,     \* create_snapshot: the lines put on the display
    typeahead,        \* keys pressed and not yet read by getch
    input_mode,       \* stdscr: how long getch waits for a key
    comboBox,         \* qt: the items of the list shown and its currentIndex
    workers,          \* qt: the CommandWorkers started, in order
    current_screen,   \* TUIApp.current_screen
    selected_row,     \* TUIApp.selected_row
    selected_col,     \* TUIApp.selected_col
    status_message,   \* TUIApp.status_message
    status_timeout,   \* TUIApp.status_timeout
    reboot_needed,    \* TUIApp.reboot_needed
    pc,               \* where the process is: the input loop, a modal, or ended
    pending,          \* locals of the handler suspended in a modal
    global_row,       \* tui: main.global_row
    current_col       \* tui: main.current_col

fsVars == <<snaps, pool, clock>>
logVars == <<calls, last, restores, cloned>>
uiVars == <<current_screen, selected_row, selected_col, status_message,
            status_timeout, reboot_needed>>
tuiVars == <<global_row, current_col>>
diskVars == <<config_file, writable>>
createVars == <<process, output_lines, typeahead, input_mode>>
qtVars == <<comboBox, workers>>
vars == <<variant, display_name, snaps, pool, clock, calls, last, restores, cloned, config,
          config_file, writable, process, output_lines, typeahead, input_mode,
          comboBox, workers, current_screen,
          selected_row, selected_col, status_message, status_timeout,
          reboot_needed, pc, pending, global_row, current_col>>

---------------------------------------------------------------------------
\* Bounds of the model.

\* Seconds the wall clock can advance to (timestamps "1".."MaxClock").
MaxClock == 2
\* Draw cycles a status budget is counted for; larger budgets are capped.
MaxBudget == 2
\* Restores one run is followed for.
MaxRestores == 2
\* Lines a run of the backup tool writes at most.
MaxLines == 2
\* Keys that wait unread at most.
MaxKeys == 1
\* Workers of the graphical front-end in flight at most.
MaxWorkers == 4

---------------------------------------------------------------------------
\* Strings.

\* The characters used, in code point order (Python compares str by code point).
Alphabet == "./0123456789@ABCDEFGHIJKLMNOPQRSTUVWXYZ_abcdefghijklmnopqrstuvwxyz"

CharAt(s, i) == SubSeq(s, i, i)

\* ord(c), up to a monotone renumbering
OrdTable ==
    [c \in {CharAt(Alphabet, i) : i \in 1..Len(Alphabet)} |->
        CHOOSE i \in 1..Len(Alphabet) : CharAt(Alphabet, i) = c]

Ord(c) == OrdTable[c]

RECURSIVE StrLess(_, _)
\* a < b for Python str
StrLess(a, b) ==
    IF Len(b) = 0 THEN FALSE
    ELSE IF Len(a) = 0 THEN TRUE
    ELSE IF CharAt(a, 1) = CharAt(b, 1)
         THEN StrLess(SubSeq(a, 2, Len(a)), SubSeq(b, 2, Len(b)))
         ELSE Ord(CharAt(a, 1)) < Ord(CharAt(b, 1))

\* s.startswith(p)
StartsWith(s, p) == Len(s) >= Len(p) /\ SubSeq(s, 1, Len(p)) = p

\* '.' in s
HasDot(s) == \E i \in 1..Len(s) : CharAt(s, i) = "."

\* s.split('.')[0]
BeforeDot(s) ==
    IF HasDot(s)
    THEN LET i == CHOOSE k \in 1..Len(s) :
                     /\ CharAt(s, k) = "."
                     /\ \A j \in 1..(k - 1) : CharAt(s, j) # "."
         IN SubSeq(s, 1, i - 1)
    ELSE s

RECURSIVE SortAsc(_)
\* sorted(S) for a set of str
SortAsc(S) ==
    IF S = {} THEN <<>>
    ELSE LET m == CHOOSE x \in S : \A y \in S : y = x \/ StrLess(x, y)
         IN <<m>> \o SortAsc(S \ {m})

RECURSIVE Reverse(_)
Reverse(s) == IF s = <<>> THEN <<>> ELSE Reverse(Tail(s)) \o <<Head(s)>>

\* list.sort(reverse=True)
\* A group kept oldest first.
SortOldestFirst(S) == SortAsc(S)

SortDesc(S) == Reverse(SortAsc(S))

\* The function f with every value computed once (the model checker would
\* otherwise recompute f[x] at each application).
Tabulated(f) == f @@ [x \in {} |-> x]

Min(a, b) == IF a < b THEN a ELSE b
Max(a, b) == IF a > b THEN a ELSE b

---------------------------------------------------------------------------
\* The file system.

PoolDir == "/mnt/btr_pool"
SnapDir == "/mnt/btr_pool/btrbk_snapshots"
\* A path that names no directory.
NoDir == "/x"

\* Data identities: what a live subvolume held before any restore.
Orig == "orig"

EmptyFs == [p \in {} |-> Orig]

IsUnder(q, p) == Len(q) >= Len(p) /\ SubSeq(q, 1, Len(p)) = p

HasChildren(fs, p) == \E q \in DOMAIN fs : IsUnder(q, p) /\ q # p

\* The tree fs with the subtree at src relocated to dst.
MoveTree(fs, src, dst) ==
    LET moved == {q \in DOMAIN fs : IsUnder(q, src)}
        kept == DOMAIN fs \ moved
        NewPath(q) == dst \o SubSeq(q, Len(src) + 1, Len(q))
        OldPath(q) == src \o SubSeq(q, Len(dst) + 1, Len(q))
    IN [q \in kept \cup {NewPath(x) : x \in moved} |->
            IF q \in kept THEN fs[q] ELSE fs[OldPath(q)]]

\* `mv src dst` on directories: an existing directory dst receives src as
\* dst/basename(src); that fails when dst/basename(src) is there already.
\* allowed = FALSE is a failure from outside (permissions, busy mount, ...).
Mv(fs, src, dst, allowed) ==
    LET into == dst \o <<src[Len(src)]>>
        real == IF dst \in DOMAIN fs THEN into ELSE dst
        ok == allowed /\ src \in DOMAIN fs /\ real \notin DOMAIN fs
    IN [ok |-> ok,
        fs |-> IF ok THEN MoveTree(fs, src, real) ELSE fs,
        at |-> real]

\* `btrfs subvolume snapshot source dst`: an existing dst receives the clone
\* as dst/basename(source).  dirOk: the parent directory of dst exists.
Snapshot(fs, source, srcOk, dst, dirOk, allowed) ==
    LET into == dst \o <<source>>
        real == IF dst \in DOMAIN fs THEN into ELSE dst
        ok == allowed /\ srcOk /\ dirOk /\ real \notin DOMAIN fs
    IN [ok |-> ok,
        fs |-> IF ok
               THEN [q \in DOMAIN fs \cup {real} |->
                        IF q = real THEN source ELSE fs[q]]
               ELSE fs,
        at |-> real]

\* `btrfs subvolume delete path`: refuses a subvolume that holds subvolumes.
Delete(fs, path, allowed) ==
    LET ok == allowed /\ path \in DOMAIN fs /\ ~HasChildren(fs, path)
    IN [ok |-> ok,
        fs |-> IF ok THEN [q \in DOMAIN fs \ {path} |-> fs[q]] ELSE fs]

\* One entry of the log of primitives.
Call(cmd, ok, dstExisted) == [cmd |-> cmd, ok |-> ok, dstExisted |-> dstExisted]

---------------------------------------------------------------------------
\* SnapshotManager.get_snapshots / get_snapshot_groups.

\* Names that qualify as snapshots.
\* A grouping that takes every dotted name, whatever its first character.
QualifiesAnyDotted(folder) == HasDot(folder)

Qualifies(folder) == HasDot(folder) /\ StartsWith(folder, "@")

\* snapshot_groups: prefix -> entries, newest first.
snapshot_groups(names) ==
    LET prefixes == {BeforeDot(f) : f \in {g \in names : Qualifies(g)}}
    IN Tabulated([p \in prefixes |->
            SortDesc({f \in names : Qualifies(f) /\ BeforeDot(f) = p})])

\* sorted(keys, key=lambda x: (x != '@', x))
sorted_prefixes(names) ==
    LET keys == DOMAIN snapshot_groups(names)
    IN (IF "@" \in keys THEN <<"@">> ELSE <<>>) \o SortAsc(keys \ {"@"})

\* os.listdir(snapshots_dir): raises for a directory that does not exist,
\* and get_snapshots then returns ({}, []).
ListDir(dir) == IF dir = SnapDir THEN snaps ELSE {}

---------------------------------------------------------------------------
\* Config (pro).

DEFAULT_CONFIG ==
    [btr_pool_dir |-> PoolDir,
     snapshots_dir |-> SnapDir,
     auto_cleanup |-> FALSE,
     confirm_actions |-> TRUE,
     show_timestamps |-> TRUE,
     theme |-> "default"]

\* handle_settings_input: the keys the settings screen lists, by row.
settings_keys ==
    <<"btr_pool_dir", "snapshots_dir", "auto_cleanup", "confirm_actions",
      "show_timestamps">>

settings_count == 5

BoolKeys == {"auto_cleanup", "confirm_actions", "show_timestamps"}

\* A set that stores under any key.
ConfigSetAnyKey(cfg, key, value) ==
    [k \in DOMAIN cfg \cup {key} |-> IF k = key THEN value ELSE cfg[k]]

\* Config.set
ConfigSet(cfg, key, value) ==
    IF key \in DOMAIN DEFAULT_CONFIG THEN [cfg EXCEPT ![key] = value] ELSE cfg

\* json.dump of one value: true / false for a bool, a quoted string for a
\* str.  In every record considered a key holds a value of its default's type.
Encode(key, value) ==
    IF key \in BoolKeys THEN (IF value THEN "true" ELSE "false")
    ELSE "\"" \o value \o "\""

\* json.load of one value.
Decode(text) ==
    IF text = "true" THEN TRUE
    ELSE IF text = "false" THEN FALSE
    ELSE SubSeq(text, 2, Len(text) - 1)

\* json.dump(self.data): key -> text of the value.
json_dump(data) == [k \in DOMAIN data |-> Encode(k, data[k])]

\* CONFIG_FILE holding the JSON object text, a file that is not JSON, and no
\* file.
FileOf(text) == [state |-> "file", text |-> text]
CorruptFile == [state |-> "corrupt", text |-> <<>>]
NoFile == [state |-> "absent", text |-> <<>>]

\* Config.__init__ and Config.load: the defaults, overwritten by the known
\* keys of the file; a missing file or one that cannot be parsed leaves the
\* defaults.
load(file) ==
    IF file.state = "file"
    THEN [k \in DOMAIN DEFAULT_CONFIG |->
            IF k \in DOMAIN file.text THEN Decode(file.text[k])
            ELSE DEFAULT_CONFIG[k]]
    ELSE DEFAULT_CONFIG

\* Config.save: [ok, file].  open() raises when the file cannot be written
\* and the file is left as it was.
save(data, file, canWrite) ==
    IF canWrite THEN [ok |-> TRUE, file |-> FileOf(json_dump(data))]
    ELSE [ok |-> FALSE, file |-> file]

\* The pool as the run sees it through its pool directory setting.
PoolView(cfg) == IF cfg.btr_pool_dir = PoolDir THEN pool ELSE EmptyFs

\* The pool after a command sequence left the tree fs behind.
PoolAfter(cfg, fs) == IF cfg.btr_pool_dir = PoolDir THEN fs ELSE pool

---------------------------------------------------------------------------
\* format_snapshot_name (pro and cli).

\* Nothing was formatted yet.
NoName == [snapshot |-> "", text |-> "", raised |-> ""]

\* datetime.strptime(s, "%Y%m%d" + sep + "%H%M" (+ "%S" when seconds)):
\* [ok, Y, m, d, H, M, S], ok = FALSE for ValueError.  The format is matched as
\* a regular expression from the left: four digits for the year, one or two
\* for every other field, two tried first; the first match counts, and it has
\* to reach the end of s.  The date then has to exist.
strptime(s, sep, seconds) ==
    LET IsDigits(t) == \A i \in 1..Len(t) :
                           \E k \in 1..10 : CharAt("0123456789", k) = CharAt(t, i)
        Val(c) == (CHOOSE k \in 1..10 : CharAt("0123456789", k) = c) - 1
        Num(t) == IF Len(t) = 1 THEN Val(t)
                  ELSE 10 * Val(CharAt(t, 1)) + Val(CharAt(t, 2))
        n == IF seconds THEN 5 ELSE 4
        Top == <<12, 31, 23, 59, 61>>
        Bottom == <<1, 1, 0, 0, 0>>
        Pos(w) == <<5, 5 + w[1], 6 + w[1] + w[2], 6 + w[1] + w[2] + w[3],
                    6 + w[1] + w[2] + w[3] + w[4]>>
        End(w) == Pos(w)[n] + w[n] - 1
        Field(w, k) == SubSeq(s, Pos(w)[k], Pos(w)[k] + w[k] - 1)
        Matches(w) ==
            /\ Len(s) >= End(w)
            /\ IsDigits(SubSeq(s, 1, 4))
            /\ CharAt(s, 5 + w[1] + w[2]) = sep
            /\ \A k \in 1..n : /\ IsDigits(Field(w, k))
                               /\ Num(Field(w, k)) >= Bottom[k]
                               /\ Num(Field(w, k)) <= Top[k]
        Found == {w \in [1..5 -> {1, 2}] : Matches(w) /\ (~seconds => w[5] = 1)}
        first == CHOOSE w \in Found :
                    \A v \in Found \ {w} :
                        \E k \in 1..n : w[k] > v[k] /\ \A j \in 1..(k - 1) : w[j] = v[j]
        Y == 1000 * Val(CharAt(s, 1)) + 100 * Val(CharAt(s, 2))
                + 10 * Val(CharAt(s, 3)) + Val(CharAt(s, 4))
        leap == Y % 4 = 0 /\ (Y % 100 # 0 \/ Y % 400 = 0)
        DaysIn(m) == IF m = 2 THEN (IF leap THEN 29 ELSE 28)
                     ELSE IF m \in {4, 6, 9, 11} THEN 30 ELSE 31
        dt == [ok |-> TRUE, Y |-> Y, m |-> Num(Field(first, 1)),
               d |-> Num(Field(first, 2)), H |-> Num(Field(first, 3)),
               M |-> Num(Field(first, 4)),
               S |-> IF seconds THEN Num(Field(first, 5)) ELSE 0]
        ValueError == [ok |-> FALSE, Y |-> 0, m |-> 0, d |-> 0, H |-> 0, M |-> 0,
                       S |-> 0]
    IN IF Found = {} THEN ValueError
       ELSE IF End(first) # Len(s) THEN ValueError
       ELSE IF dt.Y < 1 \/ dt.d > DaysIn(dt.m) \/ dt.S > 59 THEN ValueError
       ELSE dt

\* dt.strftime('%Y-%m-%d %H:%M:%S'), for the years from 1000 on.
strftime(dt) ==
    LET Two(i) == IF i < 10 THEN "0" \o ToString(i) ELSE ToString(i)
    IN ToString(dt.Y) \o "-" \o Two(dt.m) \o "-" \o Two(dt.d) \o " "
          \o Two(dt.H) \o ":" \o Two(dt.M) \o ":" \o Two(dt.S)

\* A formatting that lets the ValueError of strptime through.
format_snapshot_name_raising(show, snapshot) ==
    LET prefix == BeforeDot(snapshot)
        timestamp_str == SubSeq(snapshot, Len(prefix) + 2, Len(snapshot))
        dt == strptime(timestamp_str, "_", TRUE)
    IN IF ~show THEN [text |-> snapshot, raised |-> ""]
       ELSE IF HasDot(snapshot) /\ StartsWith(snapshot, "@")
       THEN IF dt.ok
            THEN [text |-> snapshot \o " (" \o strftime(dt) \o ")", raised |-> ""]
            ELSE [text |-> "", raised |-> "ValueError"]
       ELSE [text |-> snapshot, raised |-> ""]

\* SnapshotManager.format_snapshot_name (pro): [text, raised]; show is the
\* show_timestamps setting.
format_snapshot_name(show, snapshot) ==
    LET prefix == BeforeDot(snapshot)
        timestamp_str == SubSeq(snapshot, Len(prefix) + 2, Len(snapshot))
        dt == strptime(timestamp_str, "_", TRUE)
        try == IF HasDot(snapshot) /\ StartsWith(snapshot, "@")
               THEN IF dt.ok
                    THEN [text |-> snapshot \o " (" \o strftime(dt) \o ")",
                          raised |-> ""]
                    ELSE [text |-> "", raised |-> "ValueError"]
               ELSE [text |-> snapshot, raised |-> ""]
    IN IF ~show THEN [text |-> snapshot, raised |-> ""]
       ELSE IF try.raised \in {"ValueError", "IndexError"}
       THEN [text |-> snapshot, raised |-> ""]
       ELSE try

\* format_snapshot_name (cli): the format with a "T" and no seconds is tried
\* before the one of pro.
cli_format_snapshot_name(snapshot) ==
    LET prefix == BeforeDot(snapshot)
        timestamp_str == SubSeq(snapshot, Len(prefix) + 2, Len(snapshot))
        dt1 == strptime(timestamp_str, "T", FALSE)
        dt2 == strptime(timestamp_str, "_", TRUE)
        try == IF HasDot(snapshot) /\ StartsWith(snapshot, "@")
               THEN IF dt1.ok
                    THEN [text |-> snapshot \o " (" \o strftime(dt1) \o ")",
                          raised |-> ""]
                    ELSE IF dt2.ok
                    THEN [text |-> snapshot \o " (" \o strftime(dt2) \o ")",
                          raised |-> ""]
                    ELSE [text |-> snapshot, raised |-> ""]
               ELSE [text |-> snapshot, raised |-> ""]
    IN IF try.raised \in {"ValueError", "IndexError"}
       THEN [text |-> snapshot, raised |-> ""]
       ELSE try

---------------------------------------------------------------------------
\* The history kept of restores.

\* s contains ".BROKEN"
IsBrokenName(s) ==
    \E i \in 1..(Len(s) - 6) : SubSeq(s, i, i + 6) = ".BROKEN"

\* The .BROKEN siblings: names directly below the pool directory.
BrokenSiblings(fs) == {q \in DOMAIN fs : Len(q) = 1 /\ IsBrokenName(q[1])}

\* The record kept of a restore: the entry, its group prefix, the subvolume
\* name it targets, the .BROKEN name it displaces to, what was live before,
\* how many .BROKEN siblings it added, and whether it reported success.
LastRestore(snapshot, prefix, target, broken, prev, made, ok) ==
    [snapshot |-> snapshot, prefix |-> prefix, target |-> target,
     broken |-> broken, prev |-> prev, made |-> made, ok |-> ok]

NoRestore == LastRestore("", "", "", "", "", 0, FALSE)

\* The primitives cs got through the rename (where one ran) and the clone.
StepsDone(cs) ==
    /\ \A i \in 1..Len(cs) : cs[i].cmd = "mv" => cs[i].ok
    /\ \E i \in 1..Len(cs) : cs[i].cmd = "snapshot" /\ cs[i].ok

\* A restore that invoked cs and is recorded as l enters the history.
Record(cs, l) ==
    /\ restores < MaxRestores
    /\ calls' = cs
    /\ last' = l
    /\ restores' = restores + 1
    /\ cloned' = (cloned \/ StepsDone(cs))

\* .BROKEN siblings present in after that were not in before.
Made(before, after) ==
    Cardinality(BrokenSiblings(after) \ BrokenSiblings(before))

---------------------------------------------------------------------------
\* SnapshotManager.restore_snapshot (pro).

NoTarget == ""

\* The subvolume a snapshot type names; NoTarget for a type not recognised.
TargetOf(snapshot_type) ==
    IF snapshot_type = "root" THEN "@"
    ELSE IF snapshot_type = "home" THEN "@home"
    ELSE IF snapshot_type = "games" THEN "@games"
    ELSE NoTarget

\* What the environment lets succeed during one handler.
Env == [mv : BOOLEAN, clone : BOOLEAN, del : BOOLEAN, dialog : BOOLEAN,
        dialog2 : BOOLEAN]

\* The environments that differ in whether a dialog window can be created.
DialogEnv == {e \in Env : e.mv /\ e.clone /\ e.del /\ e.dialog2}

\* The environments met after the first dialog was answered.
CommandEnv == {e \in Env : e.dialog}

\* Nothing fails.
NoFault == [mv |-> TRUE, clone |-> TRUE, del |-> TRUE, dialog |-> TRUE,
            dialog2 |-> TRUE]

\* The environments in which at most one thing fails.
OneFault ==
    {e \in Env :
        Cardinality({k \in {"mv", "clone", "del", "dialog", "dialog2"} :
                        ~e[k]}) <= 1}

\* The environments of a session: the rename or a dialog fails, or nothing
\* does (a clone or a delete that fails is met by the restores of Spec).
SessionEnv == {e \in OneFault : e.clone /\ e.del}

\* The content of the live subvolume sub, "" when there is none.
LiveContent(fs, sub) == IF <<sub>> \in DOMAIN fs THEN fs[<<sub>>] ELSE ""

\* A restore_snapshot that undid the rename when the clone failed.
restore_snapshot_rollback(fs, cfg, snapshot, snapshot_type, env) ==
    LET sub == TargetOf(snapshot_type)
        m == Mv(fs, <<sub>>, <<sub \o ".BROKEN">>, env.mv)
        s == Snapshot(m.fs, snapshot, snapshot \in ListDir(cfg.snapshots_dir),
                      <<sub>>, cfg.btr_pool_dir = PoolDir, env.clone)
        cm == Call("mv", m.ok, <<sub \o ".BROKEN">> \in DOMAIN fs)
        cs == Call("snapshot", s.ok, <<sub>> \in DOMAIN m.fs)
    IN IF sub = NoTarget
       THEN [ok |-> FALSE, fs |-> fs, calls |-> <<>>, made |-> 0]
       ELSE IF ~m.ok
       THEN [ok |-> FALSE, fs |-> fs, calls |-> <<cm>>, made |-> 0]
       ELSE IF ~s.ok
       THEN [ok |-> FALSE, fs |-> fs, calls |-> <<cm, cs>>, made |-> 0]
       ELSE [ok |-> TRUE, fs |-> s.fs, calls |-> <<cm, cs>>,
             made |-> Made(fs, m.fs)]

\* restore_snapshot: [ok, fs, calls].  Every command runs with check=True
\* inside one try: the first failing command ends the function with False.
restore_snapshot(fs, cfg, snapshot, snapshot_type, env) ==
    LET sub == TargetOf(snapshot_type)
        current_subvol == <<sub>>
        broken_subvol == <<sub \o ".BROKEN">>
        new_subvol == <<sub>>
        m == Mv(fs, current_subvol, broken_subvol, env.mv)
        s == Snapshot(m.fs, snapshot, snapshot \in ListDir(cfg.snapshots_dir),
                      new_subvol, cfg.btr_pool_dir = PoolDir, env.clone)
        d == Delete(s.fs, broken_subvol, env.del)
        cm == Call("mv", m.ok, broken_subvol \in DOMAIN fs)
        cs == Call("snapshot", s.ok, new_subvol \in DOMAIN m.fs)
        cd == Call("delete", d.ok, FALSE)
    IN IF sub = NoTarget
       THEN [ok |-> FALSE, fs |-> fs, calls |-> <<>>, made |-> 0]
       ELSE IF ~m.ok
       THEN [ok |-> FALSE, fs |-> fs, calls |-> <<cm>>, made |-> 0]
       ELSE IF ~s.ok
       THEN [ok |-> FALSE, fs |-> m.fs, calls |-> <<cm, cs>>,
             made |-> Made(fs, m.fs)]
       ELSE IF cfg.auto_cleanup
       THEN [ok |-> d.ok, fs |-> d.fs, calls |-> <<cm, cs, cd>>,
             made |-> Made(fs, m.fs)]
       ELSE [ok |-> TRUE, fs |-> s.fs, calls |-> <<cm, cs>>,
             made |-> Made(fs, m.fs)]

---------------------------------------------------------------------------
\* TUIApp (pro): drawing.

\* set_status stores the budget; the model counts it down from MaxBudget at most.
Budget(timeout) == Min(timeout, MaxBudget)

\* Every directory name the snapshots directory holds in some state.
NameUniverse ==
    {"@.1", "@.2", "@home.1", "@home.2", "@custom.1",
     "home.3", "@games", "@home.2.old"}

\* get_snapshots for each content of the directory (it is recomputed on
\* every call; the table only spares the model checker the recomputation).
ListingTable ==
    Tabulated([names \in SUBSET NameUniverse |->
        [groups |-> snapshot_groups(names), prefixes |-> sorted_prefixes(names)]])

Groups == ListingTable[ListDir(config.snapshots_dir)].groups
Prefixes == ListingTable[ListDir(config.snapshots_dir)].prefixes

\* draw_main_screen: selected_col brought into the listing's bounds.
draw_col(screen, prefixes, col) ==
    IF screen = "main" /\ prefixes # <<>> /\ col >= Len(prefixes)
    THEN Len(prefixes) - 1
    ELSE col

\* draw_main_screen: selected_row brought into the active column's bounds.
draw_row(screen, n, row) ==
    IF screen = "main" /\ row >= n THEN Max(0, n - 1) ELSE row

\* draw_status: [msg, timeout] after one draw.
draw_status(reboot, msg, timeout) ==
    IF reboot THEN [msg |-> msg, timeout |-> timeout]
    ELSE IF msg # "" /\ timeout > 0 THEN [msg |-> msg, timeout |-> timeout - 1]
    ELSE IF timeout <= 0 THEN [msg |-> "", timeout |-> timeout]
    ELSE [msg |-> msg, timeout |-> timeout]

\* A status line that gives a pending status message precedence.
banner_status_first(reboot, msg, timeout) ==
    IF msg # "" /\ timeout > 0 THEN msg
    ELSE IF reboot THEN "REBOOT REQUIRED - Press H to reboot system"
    ELSE ""

\* draw_status: the text put on the status line, "" when nothing is drawn.
banner(reboot, msg, timeout) ==
    IF reboot THEN "REBOOT REQUIRED - Press H to reboot system"
    ELSE IF msg # "" /\ timeout > 0 THEN msg
    ELSE ""

\* The controller's fields after the draw half of a loop cycle.
D ==
    LET col == draw_col(current_screen, Prefixes, selected_col)
        row == IF Prefixes = <<>> THEN selected_row
               ELSE draw_row(current_screen, Len(Groups[Prefixes[col + 1]]),
                             selected_row)
        st == draw_status(reboot_needed, status_message, status_timeout)
    IN [col |-> col, row |-> row, msg |-> st.msg, timeout |-> st.timeout]

---------------------------------------------------------------------------
\* TUIApp (pro): helpers of the handlers.

NoPending == [snapshot |-> "", prefix |-> "", snapshot_type |-> "", key |-> ""]

\* Assignment of the controller's own fields.
UI(screen, row, col, msg, timeout, reboot) ==
    /\ current_screen' = screen
    /\ selected_row' = row
    /\ selected_col' = col
    /\ status_message' = msg
    /\ status_timeout' = timeout
    /\ reboot_needed' = reboot

\* A loop cycle that leaves everything but the drawn fields alone.
DrawOnly ==
    /\ UI(current_screen, D.row, D.col, D.msg, D.timeout, reboot_needed)
    /\ UNCHANGED <<variant, display_name, qtVars, diskVars, createVars, fsVars, logVars,
                   config, pc, pending, tuiVars>>

\* A cycle whose handler only sets the status.
StatusOnly(msg, timeout) ==
    /\ UI(current_screen, D.row, D.col, msg, Budget(timeout), reboot_needed)
    /\ UNCHANGED <<variant, display_name, qtVars, diskVars, createVars, fsVars, logVars,
                   config, pc, pending, tuiVars>>

\* confirm_dialog returns True without asking: confirmations are switched
\* off, or the dialog window cannot be created (curses.error).
Immediate(cfg, dialogOk) == ~cfg.confirm_actions \/ ~dialogOk

\* handle_snapshot_selection: the type handed to restore_snapshot.
SnapshotType(prefix) ==
    IF StartsWith(prefix, "@") THEN SubSeq(prefix, 2, Len(prefix)) ELSE prefix

\* A controller that raised the flag after every restore, whatever it returned.
RebootFlagAlways(ok, old) == TRUE

\* A controller that kept in the flag the result of the latest restore only.
RebootFlagLatest(ok, old) == ok

\* handle_snapshot_selection: reboot_needed after restore_snapshot returned ok.
RebootFlag(ok, old) == IF ok THEN TRUE ELSE old

\* handle_snapshot_selection from "Perform restoration" on.
RestoreNow(snapshot, prefix, snapshot_type, env) ==
    LET fs == PoolView(config)
        r == restore_snapshot(fs, config, snapshot, snapshot_type, env)
        sub == TargetOf(snapshot_type)
        reboot == r.ok /\ Immediate(config, env.dialog2)
    IN /\ pool' = PoolAfter(config, r.fs)
       /\ Record(r.calls,
                 LastRestore(snapshot, prefix, sub,
                             IF sub = NoTarget THEN "" ELSE sub \o ".BROKEN",
                             LiveContent(fs, sub), r.made, r.ok))
       /\ reboot_needed' = RebootFlag(r.ok, reboot_needed)
       /\ status_message' =
              IF r.ok
              THEN "Snapshot restored! Press H to reboot or continue working"
              ELSE "Failed to restore snapshot!"
       /\ status_timeout' = IF r.ok THEN Budget(200) ELSE Budget(100)
       /\ pc' = IF ~r.ok THEN "loop"
                ELSE IF reboot THEN "rebooted" ELSE "confirm_reboot_after"
       /\ pending' = NoPending
       /\ UNCHANGED <<variant, display_name, qtVars, diskVars, createVars, snaps, clock,
                      config, current_screen, tuiVars>>

InLoop(screen) == variant = "pro" /\ pc = "loop" /\ current_screen = screen

\* main(): curses.wrapper returned or run() raised; the process ends and the
\* TUIApp object with it.  Its display fields read as at construction from
\* then on; reboot_needed keeps the value the session ended with.
ProcessEnds(how) ==
    /\ UI("main", 0, 0, "", 0, reboot_needed)
    /\ pc' = how

---------------------------------------------------------------------------
\* TUIApp.run and TUIApp.handle_main_input (pro).

\* getch timed out (key == -1): stdscr still waits 100 ms at most for a key.
ProIdle ==
    /\ variant = "pro" /\ pc = "loop"
    /\ input_mode = "timeout"
    /\ DrawOnly

\* 'q' / 'Q' on either screen.
ProQuit ==
    /\ variant = "pro" /\ pc = "loop"
    /\ ProcessEnds("exited")
    /\ UNCHANGED <<variant, display_name, qtVars, diskVars, createVars, fsVars, logVars,
                   config, pending, tuiVars>>

\* A key on MAIN while the listing is empty: handle_main_input returns at once.
ProMainEmpty ==
    /\ InLoop("main") /\ Prefixes = <<>>
    /\ DrawOnly

NavKeys == {"UP", "DOWN", "LEFT", "RIGHT"}

\* handle_main_input: the cursor after an arrow key.
\* Arrow keys that keep the row when the column changes.
NavigateKeepRow(key, row, col) ==
    LET n == Len(Groups[Prefixes[col + 1]])
    IN [col |-> IF key = "LEFT" /\ col > 0 THEN col - 1
                ELSE IF key = "RIGHT" /\ col < Len(Prefixes) - 1 THEN col + 1
                ELSE col,
        row |-> IF key = "UP" /\ row > 0 THEN row - 1
                ELSE IF key = "DOWN" /\ row < n - 1 THEN row + 1
                ELSE row]

Navigate(key, row, col) ==
    LET n == Len(Groups[Prefixes[col + 1]])
        ncol == IF key = "LEFT" /\ col > 0 THEN col - 1
                ELSE IF key = "RIGHT" /\ col < Len(Prefixes) - 1 THEN col + 1
                ELSE col
        m == Len(Groups[Prefixes[ncol + 1]])
    IN [col |-> ncol,
        row |-> IF key = "UP" /\ row > 0 THEN row - 1
                ELSE IF key = "DOWN" /\ row < n - 1 THEN row + 1
                ELSE IF ncol # col THEN (IF m > 0 THEN Min(row, m - 1) ELSE 0)
                ELSE row]

ProNav(key) ==
    /\ InLoop("main") /\ Prefixes # <<>>
    /\ LET c == Navigate(key, D.row, D.col)
       IN UI("main", c.row, c.col, D.msg, D.timeout, reboot_needed)
    /\ UNCHANGED <<variant, display_name, qtVars, diskVars, createVars, fsVars, logVars,
                   config, pc, pending, tuiVars>>

\* ENTER: handle_snapshot_selection up to the confirmation.
ProEnter(env) ==
    /\ InLoop("main") /\ Prefixes # <<>>
    /\ LET current_prefix == Prefixes[D.col + 1]
           current_snapshots == Groups[current_prefix]
       IN IF D.row >= Len(current_snapshots)
          THEN DrawOnly
          ELSE LET snapshot == current_snapshots[D.row + 1]
                   snapshot_type == SnapshotType(current_prefix)
               IN /\ selected_row' = D.row
                  /\ selected_col' = D.col
                  /\ IF Immediate(config, env.dialog)
                     THEN RestoreNow(snapshot, current_prefix, snapshot_type, env)
                     ELSE /\ pc' = "confirm_restore"
                          /\ pending' = [NoPending EXCEPT
                                            !.snapshot = snapshot,
                                            !.prefix = current_prefix,
                                            !.snapshot_type = snapshot_type]
                          /\ status_message' = D.msg
                          /\ status_timeout' = D.timeout
                          /\ UNCHANGED <<variant, display_name, qtVars, diskVars,
                                         createVars, fsVars, logVars, config,
                                         current_screen, reboot_needed, tuiVars>>

\* 's' / 'S'
\* An 's' that takes the row of MAIN along to SETTINGS.
ProToSettingsKeepRow ==
    /\ InLoop("main") /\ Prefixes # <<>>
    /\ UI("settings", D.row, D.col, D.msg, D.timeout, reboot_needed)
    /\ UNCHANGED <<variant, display_name, qtVars, diskVars, createVars, fsVars, logVars,
                   config, pc, pending, tuiVars>>

ProToSettings ==
    /\ InLoop("main") /\ Prefixes # <<>>
    /\ UI("settings", 0, D.col, D.msg, D.timeout, reboot_needed)
    /\ UNCHANGED <<variant, display_name, qtVars, diskVars, createVars, fsVars, logVars,
                   config, pc, pending, tuiVars>>

\* 'r' / 'R'
ProRefresh ==
    /\ InLoop("main") /\ Prefixes # <<>>
    /\ StatusOnly("Refreshed snapshot list", 50)

\* 'h' / 'H'
\* An 'h' that asks for the reboot whatever the flag.
ProRebootKeyAnyFlag(env) ==
    /\ InLoop("main") /\ Prefixes # <<>>
    /\ UI("main", D.row, D.col, D.msg, D.timeout, reboot_needed)
    /\ pc' = IF Immediate(config, env.dialog) THEN "rebooted"
             ELSE "confirm_reboot_h"
    /\ UNCHANGED <<variant, display_name, qtVars, diskVars, createVars, fsVars, logVars,
                   config, pending, tuiVars>>

ProRebootKey(env) ==
    /\ InLoop("main") /\ Prefixes # <<>>
    /\ IF ~reboot_needed THEN StatusOnly("No reboot needed", 50)
       ELSE /\ UI("main", D.row, D.col, D.msg, D.timeout, reboot_needed)
            /\ pc' = IF Immediate(config, env.dialog) THEN "rebooted"
                     ELSE "confirm_reboot_h"
            /\ UNCHANGED <<variant, display_name, qtVars, diskVars, createVars, fsVars,
                           logVars, config, pending, tuiVars>>

\* From "Purging old snapshots..." on: TUIApp defines no purge_old_snapshots,
\* the call raises AttributeError, which ends run() and the process.
PurgeNow(row, col) ==
    /\ ProcessEnds("crashed")
    /\ UNCHANGED <<variant, display_name, qtVars, diskVars, createVars, fsVars, logVars,
                   config, pending, tuiVars>>

\* 'p' / 'P'
ProPurgeKey(env) ==
    /\ InLoop("main") /\ Prefixes # <<>>
    /\ IF Immediate(config, env.dialog) THEN PurgeNow(D.row, D.col)
       ELSE /\ UI("main", D.row, D.col, D.msg, D.timeout, reboot_needed)
            /\ pc' = "confirm_purge"
            /\ UNCHANGED <<variant, display_name, qtVars, diskVars, createVars, fsVars,
                           logVars, config, pending, tuiVars>>

\* What `btrbk run` leaves in the snapshots directory when it succeeds.
BtrbkNew == {"@home.2"}

CreateOutcomes == {"ok", "failed", "cancelled", "notfound"}

\* The ways a session's `btrbk run` ends: with status 0 it found nothing
\* changed and created no snapshot (snapshot_create onchange).  The run that
\* leaves new snapshots behind is followed step by step under SpecCreate.
SessionOutcomes == {"unchanged", "failed", "cancelled", "notfound"}

\* create_snapshot as one step, and the status handle_main_input sets from it;
\* every way out of create_snapshot passes stdscr.nodelay(False).
CreateNow(row, col, outcome) ==
    /\ UI("main", row, col,
          CASE outcome \in {"ok", "unchanged"} ->
                 "New snapshots created successfully!"
            [] outcome = "failed" ->
                 "Snapshot creation failed: btrbk completed with return code 1"
            [] outcome = "cancelled" ->
                 "Snapshot creation failed: Operation cancelled by user"
            [] OTHER -> "Snapshot creation failed: btrbk command not found",
          Budget(150), reboot_needed)
    /\ snaps' = IF outcome = "ok" THEN snaps \cup BtrbkNew ELSE snaps
    /\ input_mode' = "blocking"
    /\ pc' = "loop"
    /\ UNCHANGED <<variant, display_name, qtVars, diskVars, process, output_lines,
                   typeahead, pool, clock, logVars, config, pending, tuiVars>>

\* 'i' / 'I'
ProCreateKey(env, outcome) ==
    /\ InLoop("main") /\ Prefixes # <<>>
    /\ IF Immediate(config, env.dialog) THEN CreateNow(D.row, D.col, outcome)
       ELSE /\ UI("main", D.row, D.col, D.msg, D.timeout, reboot_needed)
            /\ pc' = "confirm_create"
            /\ UNCHANGED <<variant, display_name, qtVars, diskVars, createVars, fsVars,
                           logVars, config, pending, tuiVars>>

\* Any other key on MAIN.
ProMainOther ==
    /\ InLoop("main") /\ Prefixes # <<>>
    /\ DrawOnly

---------------------------------------------------------------------------
\* TUIApp.confirm_dialog (pro): the modal's key loop.

DialogKeys == {"y", "n", "ESC", "other"}

AtModal(where) == variant = "pro" /\ pc = where

\* A dialog that hands a key it does not know to the screen below, as 's'.
ModalLeaks ==
    /\ current_screen' = "settings"
    /\ UNCHANGED <<variant, display_name, qtVars, diskVars, createVars, fsVars, logVars,
                   config, selected_row, selected_col, status_message, status_timeout,
                   reboot_needed, pc, pending, tuiVars>>

\* A key the dialog does not know: its loop reads the next key.
ModalIgnores == UNCHANGED vars

\* The dialog opened by handle_snapshot_selection before the restore.
ProConfirmRestore(key, env) ==
    /\ AtModal("confirm_restore")
    /\ IF key = "y"
       THEN /\ RestoreNow(pending.snapshot, pending.prefix,
                          pending.snapshot_type, env)
            /\ UNCHANGED <<selected_row, selected_col>>
       ELSE IF key = "other" THEN ModalIgnores
       ELSE /\ UI(current_screen, selected_row, selected_col,
                  "Restoration cancelled", Budget(50), reboot_needed)
            /\ pc' = "loop"
            /\ pending' = NoPending
            /\ UNCHANGED <<variant, display_name, qtVars, diskVars, createVars, fsVars,
                           logVars, config, tuiVars>>

\* "Reboot system now?" after a restore that returned True.
ProConfirmRebootAfter(key) ==
    /\ AtModal("confirm_reboot_after")
    /\ IF key = "other" THEN ModalIgnores
       ELSE /\ pc' = IF key = "y" THEN "rebooted" ELSE "loop"
            /\ UNCHANGED <<variant, display_name, qtVars, diskVars, createVars, fsVars,
                           logVars, config, uiVars, pending, tuiVars>>

\* "Reboot system now?" after 'h'.
ProConfirmRebootH(key) ==
    /\ AtModal("confirm_reboot_h")
    /\ IF key = "other" THEN ModalIgnores
       ELSE IF key = "y"
       THEN /\ pc' = "rebooted"
            /\ UNCHANGED <<variant, display_name, qtVars, diskVars, createVars, fsVars,
                           logVars, config, uiVars, pending, tuiVars>>
       ELSE /\ UI(current_screen, selected_row, selected_col,
                  "Reboot cancelled", Budget(50), reboot_needed)
            /\ pc' = "loop"
            /\ UNCHANGED <<variant, display_name, qtVars, diskVars, createVars, fsVars,
                           logVars, config, pending, tuiVars>>

\* "Purge old snapshots (keep only most recent)?"
ProConfirmPurge(key) ==
    /\ AtModal("confirm_purge")
    /\ IF key = "other" THEN ModalIgnores
       ELSE IF key = "y" THEN PurgeNow(selected_row, selected_col)
       ELSE /\ UI(current_screen, selected_row, selected_col,
                  "Purge cancelled", Budget(50), reboot_needed)
            /\ pc' = "loop"
            /\ UNCHANGED <<variant, display_name, qtVars, diskVars, createVars, fsVars,
                           logVars, config, pending, tuiVars>>

\* "Create new snapshots with btrbk?"
ProConfirmCreate(key, outcome) ==
    /\ AtModal("confirm_create")
    /\ IF key = "other" THEN ModalIgnores
       ELSE IF key = "y" THEN CreateNow(selected_row, selected_col, outcome)
       ELSE /\ UI(current_screen, selected_row, selected_col,
                  "Snapshot creation cancelled", Budget(50), reboot_needed)
            /\ pc' = "loop"
            /\ UNCHANGED <<variant, display_name, qtVars, diskVars, createVars, fsVars,
                           logVars, config, pending, tuiVars>>

---------------------------------------------------------------------------
\* TUIApp.create_snapshot (pro), step by step: the poll loop, the btrbk child
\* and the operator's keys.

\* No child was started.
NoProcess == [state |-> "none", returncode |-> 0, left |-> <<>>, pipe |-> <<>>]

\* What a run of the tool writes, line by line ("" is a blank line), and the
\* status it exits with.
Scripts == UNION {[1..n -> {"a", "b", ""}] : n \in 0..MaxLines}
ExitCodes == {0, 1, 2}

\* A tool failure reported with the status of a fixed failure.
completion_status_one(rc) ==
    [ok |-> rc = 0, message |-> "btrbk completed with return code 1"]

\* create_snapshot's return after the loop: (return_code == 0, message).
completion(rc) ==
    [ok |-> rc = 0,
     message |-> "btrbk completed with return code " \o ToString(rc)]

\* create_snapshot returned (ok, message) to handle_main_input; its finally
\* clause ran stdscr.nodelay(False) on the way.
CreateReturns(ok, message) ==
    /\ UI("main", selected_row, selected_col,
          IF ok THEN "New snapshots created successfully!"
          ELSE "Snapshot creation failed: " \o message,
          Budget(150), reboot_needed)
    /\ input_mode' = "blocking"
    /\ pc' = "loop"

\* The confirmation answered yes: Popen(["btrbk", "run", "--progress"]).
CreateOpen(found, script, rc) ==
    /\ AtModal("confirm_create")
    /\ IF found
       THEN /\ process' = [state |-> "running", returncode |-> rc,
                           left |-> script, pipe |-> <<>>]
            /\ output_lines' = <<>>
            /\ input_mode' = "nodelay"
            /\ pc' = "create_getch"
            /\ UNCHANGED uiVars
       ELSE /\ CreateReturns(FALSE, "btrbk command not found")
            /\ UNCHANGED <<process, output_lines>>
    /\ UNCHANGED <<variant, display_name, qtVars, diskVars, typeahead, fsVars, logVars,
                   config, pending, tuiVars>>

\* The operator presses a key while create_snapshot runs.
KeyPress(key) ==
    /\ variant = "pro"
    /\ pc \in {"create_getch", "create_read", "create_poll", "create_wait"}
    /\ Len(typeahead) < MaxKeys
    /\ typeahead' = Append(typeahead, key)
    /\ UNCHANGED <<variant, display_name, qtVars, diskVars, process, output_lines,
                   input_mode, fsVars, logVars, config, uiVars, pc, pending, tuiVars>>

\* The child writes its next line to the pipe.
ChildEmits ==
    /\ process.state = "running" /\ process.left # <<>>
    /\ process' = [process EXCEPT !.pipe = Append(@, Head(process.left)),
                                  !.left = Tail(@)]
    /\ UNCHANGED <<variant, display_name, qtVars, diskVars, output_lines, typeahead,
                   input_mode, fsVars, logVars, config, uiVars, pc, pending, tuiVars>>

\* The child has written everything and exits with its status; a run that
\* succeeds leaves its snapshots behind.
ChildExits ==
    /\ process.state = "running" /\ process.left = <<>>
    /\ process' = [process EXCEPT !.state = "exited"]
    /\ snaps' = IF process.returncode = 0 THEN snaps \cup BtrbkNew ELSE snaps
    /\ UNCHANGED <<variant, display_name, qtVars, diskVars, output_lines, typeahead,
                   input_mode, pool, clock, logVars, config, uiVars, pc, pending,
                   tuiVars>>

\* A cancel that returns and leaves the child running.
CreateGetchLeavesChild ==
    /\ variant = "pro" /\ pc = "create_getch"
    /\ IF typeahead # <<>> /\ Head(typeahead) = "ESC"
       THEN /\ typeahead' = Tail(typeahead)
            /\ process' = process
            /\ CreateReturns(FALSE, "Operation cancelled by user")
       ELSE /\ typeahead' = IF typeahead # <<>> THEN Tail(typeahead) ELSE typeahead
            /\ pc' = "create_read"
            /\ UNCHANGED <<process, input_mode, uiVars>>
    /\ UNCHANGED <<variant, display_name, qtVars, diskVars, output_lines, fsVars,
                   logVars, config, pending, tuiVars>>

\* key = stdscr.getch() in the loop (nodelay: -1 when no key waits); ESC
\* terminates the child, waits for it and returns.
CreateGetch ==
    /\ variant = "pro" /\ pc = "create_getch"
    /\ IF typeahead # <<>> /\ Head(typeahead) = "ESC"
       THEN /\ typeahead' = Tail(typeahead)
            /\ process' = IF process.state = "running"
                          THEN [process EXCEPT !.state = "terminated"]
                          ELSE process
            /\ CreateReturns(FALSE, "Operation cancelled by user")
       ELSE /\ typeahead' = IF typeahead # <<>> THEN Tail(typeahead) ELSE typeahead
            /\ pc' = "create_read"
            /\ UNCHANGED <<process, input_mode, uiVars>>
    /\ UNCHANGED <<variant, display_name, qtVars, diskVars, output_lines, fsVars,
                   logVars, config, pending, tuiVars>>

\* line = process.stdout.readline(): returns the next line of the pipe, or
\* "" at end of file; with the pipe empty and the child running it waits.
CreateReadline ==
    /\ variant = "pro" /\ pc = "create_read"
    /\ process.pipe # <<>> \/ process.state # "running"
    /\ IF process.pipe # <<>>
       THEN /\ process' = [process EXCEPT !.pipe = Tail(@)]
            /\ output_lines' = IF Head(process.pipe) # ""
                               THEN Append(output_lines, Head(process.pipe))
                               ELSE output_lines
       ELSE UNCHANGED <<process, output_lines>>
    /\ pc' = "create_poll"
    /\ UNCHANGED <<variant, display_name, qtVars, diskVars, typeahead, input_mode,
                   fsVars, logVars, config, uiVars, pending, tuiVars>>

\* The line read cannot be shown: stdscr.addstr raises curses.error (the
\* terminal shrank under the window measured at entry), or the read itself
\* raises on bytes that do not decode. "except Exception" returns the error
\* text; nothing on this path terminates the child or waits for it.
CreateRaises ==
    /\ variant = "pro" /\ pc = "create_read"
    /\ process.pipe # <<>> /\ Head(process.pipe) # ""
    /\ process' = [process EXCEPT !.pipe = Tail(@)]
    /\ output_lines' = Append(output_lines, Head(process.pipe))
    /\ CreateReturns(FALSE, "Error running btrbk: addwstr() returned ERR")
    /\ UNCHANGED <<variant, display_name, qtVars, diskVars, typeahead, fsVars,
                   logVars, config, pending, tuiVars>>

\* process.poll(): the loop ends when the child has ended and the completion
\* message is shown under stdscr.nodelay(False), else it sleeps 50 ms and goes
\* round.
CreatePoll ==
    /\ variant = "pro" /\ pc = "create_poll"
    /\ pc' = IF process.state # "running" THEN "create_wait" ELSE "create_getch"
    /\ input_mode' = IF process.state # "running" THEN "blocking" ELSE input_mode
    /\ UNCHANGED <<variant, display_name, qtVars, diskVars, process, output_lines,
                   typeahead, fsVars, logVars, config, uiVars, pending, tuiVars>>

\* "Press any key to continue...": the blocking getch, then the return.
CreateAnyKey ==
    /\ variant = "pro" /\ pc = "create_wait"
    /\ typeahead # <<>>
    /\ typeahead' = Tail(typeahead)
    /\ LET r == completion(process.returncode)
       IN CreateReturns(r.ok, r.message)
    /\ UNCHANGED <<variant, display_name, qtVars, diskVars, process, output_lines,
                   fsVars, logVars, config, pending, tuiVars>>

---------------------------------------------------------------------------
\* TUIApp.handle_settings_input and TUIApp.edit_setting (pro).

\* Text the operator can commit in the edit dialog, for a key.
EditInputs(key) == {"", DEFAULT_CONFIG[key], NoDir}

\* UP / DOWN on SETTINGS
ProSetNav(key) ==
    /\ InLoop("settings")
    /\ key \in {"UP", "DOWN"}
    /\ UI("settings",
          IF key = "UP" /\ D.row > 0 THEN D.row - 1
          ELSE IF key = "DOWN" /\ D.row < settings_count - 1 THEN D.row + 1
          ELSE D.row,
          D.col, D.msg, D.timeout, reboot_needed)
    /\ UNCHANGED <<variant, display_name, qtVars, diskVars, createVars, fsVars, logVars,
                   config, pc, pending, tuiVars>>

\* A toggle that is kept in memory only.
ToggleUnsaved(name) ==
    /\ config' = ConfigSet(config, name, ~config[name])
    /\ UI("settings", D.row, D.col, "Toggled " \o name, Budget(50), reboot_needed)
    /\ UNCHANGED <<variant, display_name, qtVars, diskVars, createVars, fsVars, logVars,
                   pc, pending, tuiVars>>

\* A boolean key negated and saved, as edit_setting and SPACE both do.
Toggle(name) ==
    /\ config' = ConfigSet(config, name, ~config[name])
    /\ config_file' = save(config', config_file, writable).file
    /\ UI("settings", D.row, D.col, "Toggled " \o name, Budget(50), reboot_needed)
    /\ UNCHANGED <<variant, display_name, qtVars, writable, createVars, fsVars, logVars,
                   pc, pending, tuiVars>>

\* ENTER on SETTINGS: edit_setting up to the text dialog.
ProSetEnter(env) ==
    /\ InLoop("settings")
    /\ LET name == settings_keys[D.row + 1]
       IN IF name \in BoolKeys THEN Toggle(name)
          ELSE IF ~env.dialog THEN StatusOnly("Cannot create edit dialog", 50)
          ELSE /\ UI("settings", D.row, D.col, D.msg, D.timeout, reboot_needed)
               /\ pc' = "edit"
               /\ pending' = [NoPending EXCEPT !.key = name]
               /\ UNCHANGED <<variant, display_name, qtVars, diskVars, createVars,
                              fsVars, logVars, config, tuiVars>>

\* SPACE on SETTINGS
ProSetSpace ==
    /\ InLoop("settings")
    /\ LET name == settings_keys[D.row + 1]
       IN IF name \in BoolKeys THEN Toggle(name) ELSE DrawOnly

\* 's' / 'S' on SETTINGS
ProSetSave ==
    /\ InLoop("settings")
    /\ config_file' = save(config, config_file, writable).file
    /\ UI(current_screen, D.row, D.col, "Settings saved manually!", Budget(50),
          reboot_needed)
    /\ UNCHANGED <<variant, display_name, qtVars, writable, createVars, fsVars, logVars,
                   config, pc, pending, tuiVars>>

\* ESC on SETTINGS
ProSetEsc ==
    /\ InLoop("settings")
    /\ UI("main", 0, D.col, D.msg, D.timeout, reboot_needed)
    /\ UNCHANGED <<variant, display_name, qtVars, diskVars, createVars, fsVars, logVars,
                   config, pc, pending, tuiVars>>

\* Any other key on SETTINGS.
ProSetOther ==
    /\ InLoop("settings")
    /\ DrawOnly

\* edit_win.getstr returned text.
ProEditCommit(text) ==
    /\ AtModal("edit")
    /\ text \in EditInputs(pending.key)
    /\ IF text # ""
       THEN /\ config' = ConfigSet(config, pending.key, text)
            /\ config_file' = save(config', config_file, writable).file
            /\ UI(current_screen, selected_row, selected_col,
                  "Updated " \o pending.key, Budget(50), reboot_needed)
       ELSE /\ config' = config
            /\ config_file' = config_file
            /\ UI(current_screen, selected_row, selected_col,
                  "No changes made", Budget(50), reboot_needed)
    /\ pc' = "loop"
    /\ pending' = NoPending
    /\ UNCHANGED <<variant, display_name, qtVars, writable, createVars, fsVars, logVars,
                   tuiVars>>

\* edit_win.getstr or the decode raised.
ProEditCancel ==
    /\ AtModal("edit")
    /\ UI(current_screen, selected_row, selected_col,
          "Edit cancelled", Budget(50), reboot_needed)
    /\ pc' = "loop"
    /\ pending' = NoPending
    /\ UNCHANGED <<variant, display_name, qtVars, diskVars, createVars, fsVars, logVars,
                   config, tuiVars>>

---------------------------------------------------------------------------
\* btrbk_restore.py (cli).

\* display_snapshots: the numbered list, <<snapshot, prefix>> per number.
RECURSIVE Numbered(_, _)
Numbered(groups, prefixes) ==
    IF prefixes = <<>> THEN <<>>
    ELSE [i \in 1..Len(groups[Head(prefixes)]) |->
             <<groups[Head(prefixes)][i], Head(prefixes)>>]
         \o Numbered(groups, Tail(prefixes))

\* get_snapshot_groups: the test is made on the prefix.
cli_Qualifies(item) == HasDot(item) /\ StartsWith(BeforeDot(item), "@")

\* get_snapshot_groups: prefix -> entries, newest first.
cli_snapshot_groups(names) ==
    LET prefixes == {BeforeDot(f) : f \in {g \in names : cli_Qualifies(g)}}
    IN Tabulated([p \in prefixes |->
            SortDesc({f \in names : cli_Qualifies(f) /\ BeforeDot(f) = p})])

\* display_snapshots: sorted(keys, key=lambda x: (x != '@', x))
cli_sorted_prefixes(names) ==
    LET keys == DOMAIN cli_snapshot_groups(names)
    IN (IF "@" \in keys THEN <<"@">> ELSE <<>>) \o SortAsc(keys \ {"@"})

\* The listing of the script for each content of the directory.
CliListingTable ==
    Tabulated([names \in SUBSET NameUniverse |->
        [groups |-> cli_snapshot_groups(names),
         prefixes |-> cli_sorted_prefixes(names)]])

CliGroups == CliListingTable[ListDir(config.snapshots_dir)].groups
CliPrefixes == CliListingTable[ListDir(config.snapshots_dir)].prefixes

snapshot_list == Numbered(CliGroups, CliPrefixes)

\* os.listdir(dir) raises FileNotFoundError.
DirMissing(dir) == dir # SnapDir

\* main() up to the prompt: get_snapshot_groups ends the script with exit(1)
\* when the directory cannot be listed, display_snapshots when no group is
\* found.
CliList ==
    /\ variant = "cli" /\ pc = "start"
    /\ pc' = IF DirMissing(config.snapshots_dir) THEN "failed"
             ELSE IF CliPrefixes = <<>> THEN "exited"
             ELSE "loop"
    /\ UNCHANGED <<variant, display_name, qtVars, diskVars, createVars, fsVars, logVars,
                   config, uiVars, pending, tuiVars>>

\* datetime.now().strftime(...): the clock, to the second.
Timestamp(now) == ToString(now)

\* What the operator answers to the two prompts that follow a restore.
Answers == [remove : BOOLEAN, reboot : BOOLEAN]

\* restore_snapshot: [ok, fs, calls, made, reboot].  ok: the success line
\* was printed.  exit: the script ended with exit(1).
cli_restore_snapshot(fs, selected_snapshot, prefix, now, env, ans) ==
    LET subvolume_name == IF prefix = "@" THEN "@" ELSE prefix
        target_path == <<subvolume_name>>
        broken_path == <<subvolume_name \o ".BROKEN." \o Timestamp(now)>>
        exists == target_path \in DOMAIN fs
        m == IF exists THEN Mv(fs, target_path, broken_path, env.mv)
             ELSE [ok |-> TRUE, fs |-> fs, at |-> broken_path]
        s == Snapshot(m.fs, selected_snapshot, selected_snapshot \in snaps,
                      target_path, TRUE, env.clone)
        ask == broken_path \in DOMAIN s.fs
        d == Delete(s.fs, broken_path, env.del)
        cm == IF exists THEN <<Call("mv", m.ok, broken_path \in DOMAIN fs)>>
              ELSE <<>>
        cs == Call("snapshot", s.ok, target_path \in DOMAIN m.fs)
        cd == Call("delete", d.ok, FALSE)
    IN IF ~m.ok
       THEN [ok |-> FALSE, exit |-> TRUE, fs |-> fs, calls |-> cm,
             made |-> 0, reboot |-> FALSE]
       ELSE IF ~s.ok
       THEN [ok |-> FALSE, exit |-> TRUE, fs |-> m.fs,
             calls |-> Append(cm, cs), made |-> Made(fs, m.fs),
             reboot |-> FALSE]
       ELSE IF ask /\ ans.remove
       THEN [ok |-> TRUE, exit |-> ~d.ok, fs |-> d.fs,
             calls |-> cm \o <<cs, cd>>, made |-> Made(fs, m.fs),
             reboot |-> d.ok /\ ans.reboot]
       ELSE [ok |-> TRUE, exit |-> FALSE, fs |-> s.fs,
             calls |-> Append(cm, cs), made |-> Made(fs, m.fs),
             reboot |-> ans.reboot]

\* One run of main() from the prompt on, the operator typing `choice`.
CliRun(choice, env, ans) ==
    /\ variant = "cli" /\ pc = "loop"
    /\ choice \in 0..(Len(snapshot_list) + 1)
    /\ IF choice \in 1..Len(snapshot_list)
       THEN LET selected_snapshot == snapshot_list[choice][1]
                prefix == snapshot_list[choice][2]
                r == cli_restore_snapshot(pool, selected_snapshot, prefix,
                                          clock, env, ans)
            IN /\ pool' = r.fs
               /\ Record(r.calls,
                         LastRestore(selected_snapshot, prefix, prefix,
                                     prefix \o ".BROKEN." \o Timestamp(clock),
                                     LiveContent(pool, prefix), r.made, r.ok))
               /\ pc' = IF r.reboot THEN "rebooted" ELSE "exited"
       ELSE /\ pc' = "exited"
            /\ UNCHANGED <<pool, logVars>>
    /\ UNCHANGED <<variant, display_name, qtVars, diskVars, createVars, snaps, clock,
                   config, uiVars, pending, tuiVars>>

\* The script is started again.
CliStart ==
    /\ variant = "cli" /\ pc = "exited"
    /\ pc' = "loop"
    /\ UNCHANGED <<variant, display_name, qtVars, diskVars, createVars, fsVars, logVars,
                   config, uiVars, pending, tuiVars>>

\* A second passes.
Tick ==
    /\ variant = "cli"
    /\ clock < MaxClock
    /\ clock' = clock + 1
    /\ UNCHANGED <<variant, display_name, qtVars, diskVars, createVars, snaps, pool,
                   logVars, config, uiVars, pc, pending, tuiVars>>

---------------------------------------------------------------------------
\* btrbk_restore_tui.py (tui).

\* get_snapshot_folders
get_snapshot_folders(dir) == ListDir(dir)

root_snapshots ==
    SortAsc({f \in get_snapshot_folders(config.snapshots_dir) :
                StartsWith(f, "@.")})

home_snapshots ==
    SortAsc({f \in get_snapshot_folders(config.snapshots_dir) :
                StartsWith(f, "@home.")})

\* The outer loop of main(): the listing is read and the cursor reset; with
\* nothing to show main() returns.
TuiRelist ==
    IF root_snapshots = <<>> /\ home_snapshots = <<>>
    THEN /\ pc' = "exited"
         /\ UNCHANGED tuiVars
    ELSE /\ pc' = "loop"
         /\ global_row' = IF root_snapshots # <<>>
                          THEN Len(root_snapshots) - 1 ELSE 0
         /\ current_col' = IF root_snapshots # <<>> THEN 0 ELSE 1

\* main() after edit_config_fields.
TuiStart ==
    /\ variant = "tui" /\ pc = "start"
    /\ TuiRelist
    /\ UNCHANGED <<variant, display_name, qtVars, diskVars, createVars, fsVars, logVars,
                   config, uiVars, pending>>

\* 'q'
TuiQuit ==
    /\ variant = "tui" /\ pc = "loop"
    /\ pc' = "exited"
    /\ UNCHANGED <<variant, display_name, qtVars, diskVars, createVars, fsVars, logVars,
                   config, uiVars, pending, tuiVars>>

\* The arrow keys.
TuiNav(key) ==
    /\ variant = "tui" /\ pc = "loop"
    /\ LET nr == Len(root_snapshots)
           nh == Len(home_snapshots)
       IN CASE key = "LEFT" ->
                 IF current_col = 1 /\ nr > 0
                 THEN /\ current_col' = 0
                      /\ global_row' = IF global_row >= nr THEN nr - 1
                                       ELSE global_row
                 ELSE UNCHANGED tuiVars
            [] key = "RIGHT" ->
                 IF current_col = 0 /\ nh > 0
                 THEN /\ current_col' = 1
                      /\ global_row' = IF global_row >= nh THEN nh - 1
                                       ELSE global_row
                 ELSE UNCHANGED tuiVars
            [] key = "UP" ->
                 /\ global_row' = IF global_row > 0 THEN global_row - 1
                                  ELSE global_row
                 /\ UNCHANGED current_col
            [] OTHER ->
                 /\ global_row' =
                        IF current_col = 0 /\ global_row < nr - 1
                        THEN global_row + 1
                        ELSE IF current_col = 1 /\ global_row < nh - 1
                        THEN global_row + 1
                        ELSE global_row
                 /\ UNCHANGED current_col
    /\ UNCHANGED <<variant, display_name, qtVars, diskVars, createVars, fsVars, logVars,
                   config, uiVars, pc, pending>>

\* main(), ENTER confirmed, from "Rinomina il subvolume attuale" on:
\* [ok, fs, calls, made, reboot].  run_command's result is looked at for the
\* snapshot command only.
tui_restore(fs, cfg, selected_snapshot, snapshot_header, env, ans) ==
    LET live == <<snapshot_header>>
        target_broken == <<snapshot_header \o ".BROKEN">>
        snapshot_name == <<snapshot_header>>
        m == Mv(fs, live, target_broken, env.mv)
        s == Snapshot(m.fs, selected_snapshot,
                      selected_snapshot \in ListDir(cfg.snapshots_dir),
                      snapshot_name, cfg.btr_pool_dir = PoolDir, env.clone)
        d == Delete(s.fs, target_broken, env.del)
        cm == Call("mv", m.ok, target_broken \in DOMAIN fs)
        cs == Call("snapshot", s.ok, snapshot_name \in DOMAIN m.fs)
        cd == Call("delete", d.ok, FALSE)
    IN IF ~s.ok
       THEN [ok |-> FALSE, fs |-> m.fs, calls |-> <<cm, cs>>,
             made |-> Made(fs, m.fs), reboot |-> FALSE]
       ELSE IF ans.remove
       THEN [ok |-> TRUE, fs |-> d.fs, calls |-> <<cm, cs, cd>>,
             made |-> Made(fs, m.fs), reboot |-> ans.reboot]
       ELSE [ok |-> TRUE, fs |-> s.fs, calls |-> <<cm, cs>>,
             made |-> Made(fs, m.fs), reboot |-> ans.reboot]

\* ENTER, the operator answering `confirm` to "Confermi di procedere?".
TuiEnter(confirm, env, ans) ==
    /\ variant = "tui" /\ pc = "loop"
    /\ IF ~confirm
       THEN /\ TuiRelist
            /\ UNCHANGED <<pool, logVars>>
       ELSE LET col == IF current_col = 0 THEN root_snapshots ELSE home_snapshots
                selected_snapshot == col[global_row + 1]
                snapshot_header == IF current_col = 0 THEN "@" ELSE "@home"
                fs == PoolView(config)
                r == tui_restore(fs, config, selected_snapshot, snapshot_header,
                                 env, ans)
            IN /\ pool' = PoolAfter(config, r.fs)
               /\ Record(r.calls,
                         LastRestore(selected_snapshot, snapshot_header,
                                     snapshot_header,
                                     snapshot_header \o ".BROKEN",
                                     LiveContent(fs, snapshot_header),
                                     r.made, r.ok))
               /\ IF r.reboot
                  THEN /\ pc' = "rebooted"
                       /\ UNCHANGED tuiVars
                  ELSE TuiRelist
    /\ UNCHANGED <<variant, display_name, qtVars, diskVars, createVars, snaps, clock,
                   config, uiVars, pending>>

---------------------------------------------------------------------------
\* btrbk_restore_qt.py ("qt"): SnapshotRestoreApp and its CommandWorkers.  The
\* two directory fields keep the paths they are constructed with.

\* Directory names the snapshots directory gains or loses while the window is
\* open.
QtNames == {"@.2"}

\* populateComboBox: one item per directory, sorted in reverse; the first item
\* becomes the current one.
populateComboBox(names) ==
    [items |-> SortDesc(names), index |-> IF names # {} THEN 0 ELSE -1]

\* A CommandWorker: its command, the restore that started it, whether
\* self.worker still refers to it, and how far its thread got.
CommandWorker(command, source, sub, r) ==
    [command |-> command, source |-> source, sub |-> sub, r |-> r,
     held |-> TRUE, state |-> "started"]

\* runCommandAsync: self.worker is replaced by a new worker, which is started;
\* nothing waits for it.
runCommandAsync(ws, w) ==
    Append([i \in DOMAIN ws |-> [ws[i] EXCEPT !.held = FALSE]], w)

QtAlive == variant = "qt" /\ pc \in {"loop", "ask_delete", "ask_reboot"}

\* The operator picks item i of the list.
QtSelect(i) ==
    /\ variant = "qt" /\ pc = "loop"
    /\ i \in 0..(Len(comboBox.items) - 1)
    /\ comboBox' = [comboBox EXCEPT !.index = i]
    /\ UNCHANGED <<variant, display_name, workers, diskVars, createVars, fsVars,
                   logVars, config, uiVars, pc, pending, tuiVars>>

\* browseSnapshotsDir with the same directory chosen: the list is read again.
QtBrowse ==
    /\ variant = "qt" /\ pc = "loop"
    /\ comboBox' = populateComboBox(snaps)
    /\ UNCHANGED <<variant, display_name, workers, diskVars, createVars, fsVars,
                   logVars, config, uiVars, pc, pending, tuiVars>>

\* Another process (a scheduled btrbk run, its retention) adds a directory to
\* the snapshots directory or removes one.
QtDirChanges(name) ==
    /\ QtAlive
    /\ snaps' = IF name \in snaps THEN snaps \ {name} ELSE snaps \cup {name}
    /\ UNCHANGED <<variant, display_name, qtVars, diskVars, createVars, pool, clock,
                   logVars, config, uiVars, pc, pending, tuiVars>>

\* restoreSnapshot up to the first question: the index of the current item
\* is looked up in a fresh listing, and the rename and the clone are handed to
\* two workers one after the other.  (The model follows a restore that has
\* room for its four workers.)
restoreSnapshot ==
    /\ variant = "qt" /\ pc = "loop"
    /\ Len(workers) + 4 <= MaxWorkers
    /\ LET choice == comboBox.index
           folders == SortDesc(snaps)
           selected_folder == folders[choice + 1]
           snapshot_type == IF StartsWith(selected_folder, "@.") THEN "@"
                            ELSE IF StartsWith(selected_folder, "@home.")
                            THEN "@home"
                            ELSE NoTarget
           mv == CommandWorker("mv", selected_folder, snapshot_type, restores + 1)
           clone == CommandWorker("snapshot", selected_folder, snapshot_type,
                                  restores + 1)
       IN IF 0 <= choice /\ choice < Len(folders) /\ snapshot_type # NoTarget
          THEN /\ workers' = runCommandAsync(runCommandAsync(workers, mv), clone)
               /\ restores < MaxRestores
               /\ restores' = restores + 1
               /\ last' = LastRestore(selected_folder, snapshot_type, snapshot_type,
                                      snapshot_type \o ".BROKEN",
                                      LiveContent(pool, snapshot_type), 0, FALSE)
               /\ UNCHANGED <<calls, cloned>>
               /\ pending' = [NoPending EXCEPT !.snapshot = selected_folder,
                                               !.snapshot_type = snapshot_type]
               /\ pc' = "ask_delete"
          ELSE UNCHANGED <<workers, logVars, pending, pc>>
    /\ UNCHANGED <<variant, display_name, comboBox, diskVars, createVars, fsVars,
                   config, uiVars, tuiVars>>

\* "Do you want to delete the ... .BROKEN snapshot?" answered.
QtAnswerDelete(yes) ==
    /\ variant = "qt" /\ pc = "ask_delete"
    /\ workers' =
          IF yes
          THEN runCommandAsync(workers,
                   CommandWorker("delete", pending.snapshot, pending.snapshot_type,
                                 restores))
          ELSE workers
    /\ pc' = "ask_reboot"
    /\ UNCHANGED <<variant, display_name, comboBox, diskVars, createVars, fsVars,
                   logVars, config, uiVars, pending, tuiVars>>

\* "Do you want to reboot the system?" answered; restoreSnapshot returns.
QtAnswerReboot(yes) ==
    /\ variant = "qt" /\ pc = "ask_reboot"
    /\ workers' =
          IF yes
          THEN runCommandAsync(workers,
                   CommandWorker("reboot", pending.snapshot, pending.snapshot_type,
                                 restores))
          ELSE workers
    /\ pc' = "loop"
    /\ pending' = NoPending
    /\ UNCHANGED <<variant, display_name, comboBox, diskVars, createVars, fsVars,
                   logVars, config, uiVars, tuiVars>>

\* CommandWorker.run of the i-th worker: subprocess.run(command, check=True)
\* in the worker's own thread, then finished.emit.  What the commands did is
\* read off the pool; `calls` stays empty.
CommandWorkerRun(i) ==
    /\ QtAlive
    /\ i \in DOMAIN workers /\ workers[i].state = "started"
    /\ LET w == workers[i]
           live == <<w.sub>>
           broken == <<w.sub \o ".BROKEN">>
       IN /\ pool' =
                CASE w.command = "mv" -> Mv(pool, live, broken, TRUE).fs
                  [] w.command = "snapshot" ->
                       Snapshot(pool, w.source, w.source \in snaps, live, TRUE,
                                TRUE).fs
                  [] w.command = "delete" -> Delete(pool, broken, TRUE).fs
                  [] OTHER -> pool
          /\ workers' = [workers EXCEPT ![i].state = "finished"]
          /\ pc' = IF w.command = "reboot" THEN "rebooted" ELSE pc
    /\ UNCHANGED <<variant, display_name, comboBox, diskVars, createVars, snaps, clock,
                   logVars, config, uiVars, pending, tuiVars>>

\* onCommandFinished: the finished signal of the i-th worker reaches the
\* window's thread, which writes the output; the worker is done with.
onCommandFinished(i) ==
    /\ QtAlive
    /\ i \in DOMAIN workers /\ workers[i].state = "finished"
    /\ workers' = [j \in 1..(Len(workers) - 1) |->
                      IF j < i THEN workers[j] ELSE workers[j + 1]]
    /\ UNCHANGED <<variant, display_name, comboBox, diskVars, createVars, fsVars,
                   logVars, config, uiVars, pc, pending, tuiVars>>

\* A worker that self.worker no longer refers to is destroyed while its
\* thread runs.  Qt ends the process for that ("QThread: Destroyed while
\* thread is still running"); when, and whether at all, depends on how the
\* threads are scheduled.
QtAbort ==
    /\ QtAlive
    /\ \E i \in DOMAIN workers : ~workers[i].held /\ workers[i].state = "started"
    /\ pc' = "crashed"
    /\ UNCHANGED <<variant, display_name, qtVars, diskVars, createVars, fsVars, logVars,
                   config, uiVars, pending, tuiVars>>

\* The Exit button.
QtExit ==
    /\ variant = "qt" /\ pc = "loop"
    /\ pc' = "exited"
    /\ UNCHANGED <<variant, display_name, qtVars, diskVars, createVars, fsVars, logVars,
                   config, uiVars, pending, tuiVars>>

---------------------------------------------------------------------------
\* The runs.

InitSnaps == {"@.1", "@.2", "@home.1", "@custom.1"}

InitPool == [p \in {<<"@">>, <<"@home">>, <<"@custom">>} |-> Orig]

\* The settings a run starts with: pro reads them from its configuration
\* file, tui asks for the two directories, cli has the directories built in.
InitConfigs(v) ==
    IF v = "pro"
    THEN {[DEFAULT_CONFIG EXCEPT !.auto_cleanup = a, !.confirm_actions = c,
                                 !.btr_pool_dir = d] :
             a \in BOOLEAN, c \in BOOLEAN, d \in {PoolDir, NoDir}}
    ELSE IF v = "tui"
    THEN {[DEFAULT_CONFIG EXCEPT !.btr_pool_dir = d] : d \in {PoolDir, NoDir}}
    ELSE {DEFAULT_CONFIG}

\* A run of a front-end of vs over one of listings; stock: with the settings
\* every front-end ships with.
InitRun(vs, listings, stock) ==
    /\ variant \in vs
    /\ display_name = NoName
    /\ snaps \in listings
    /\ pool = InitPool
    /\ clock = 1
    /\ calls = <<>>
    /\ last = NoRestore
    /\ restores = 0
    /\ cloned = FALSE
    /\ config \in IF stock THEN {DEFAULT_CONFIG} ELSE InitConfigs(variant)
    /\ config_file = FileOf(json_dump(config))
    /\ writable = TRUE
    /\ process = NoProcess
    /\ output_lines = <<>>
    /\ typeahead = <<>>
    /\ input_mode = "timeout"
    /\ comboBox = IF variant = "qt" THEN populateComboBox(snaps)
                  ELSE [items |-> <<>>, index |-> -1]
    /\ workers = <<>>
    /\ current_screen = "main"
    /\ selected_row = 0
    /\ selected_col = 0
    /\ status_message = ""
    /\ status_timeout = 0
    /\ reboot_needed = FALSE
    /\ pc = IF variant = "tui" THEN "start" ELSE "loop"
    /\ pending = NoPending
    /\ global_row = 0
    /\ current_col = 0

\* Restores: the three front-ends, the operator browsing the listing,
\* restoring, answering the prompts and leaving.
Init == InitRun({"pro", "cli", "tui"}, {InitSnaps}, FALSE)

Next ==
    \/ ProIdle
    \/ ProQuit
    \/ \E key \in NavKeys : ProNav(key)
    \/ \E env \in Env : ProEnter(env)
    \/ \E env \in DialogEnv : ProRebootKey(env)
    \/ \E env \in CommandEnv : ProConfirmRestore("y", env)
    \/ \E key \in DialogKeys \ {"y"} : ProConfirmRestore(key, NoFault)
    \/ \E key \in DialogKeys : ProConfirmRebootAfter(key)
    \/ \E key \in DialogKeys : ProConfirmRebootH(key)
    \/ \E choice \in 0..6, env \in CommandEnv, ans \in Answers :
           CliRun(choice, env, ans)
    \/ CliStart
    \/ Tick
    \/ TuiStart
    \/ TuiQuit
    \/ \E key \in NavKeys : TuiNav(key)
    \/ \E confirm \in BOOLEAN, env \in CommandEnv, ans \in Answers :
           TuiEnter(confirm, env, ans)

Spec == Init /\ [][Next]_vars

\* A session of pro: every key of both screens and of the modals, over a
\* listing of one group or none.
InitSession == InitRun({"pro"}, {{"@home.1"}, {}}, TRUE)

NextSession ==
    \/ ProIdle
    \/ ProQuit
    \/ ProMainEmpty
    \/ \E key \in NavKeys : ProNav(key)
    \/ \E env \in SessionEnv : ProEnter(env)
    \/ ProToSettings
    \/ ProRefresh
    \/ \E env \in DialogEnv : ProRebootKey(env)
    \/ \E env \in DialogEnv : ProPurgeKey(env)
    \/ \E env \in DialogEnv, outcome \in SessionOutcomes :
           ProCreateKey(env, outcome)
    \/ ProMainOther
    \/ \E env \in SessionEnv \cap CommandEnv : ProConfirmRestore("y", env)
    \/ \E key \in DialogKeys \ {"y"} : ProConfirmRestore(key, NoFault)
    \/ \E key \in DialogKeys : ProConfirmRebootAfter(key)
    \/ \E key \in DialogKeys : ProConfirmRebootH(key)
    \/ \E key \in DialogKeys : ProConfirmPurge(key)
    \/ \E outcome \in SessionOutcomes : ProConfirmCreate("y", outcome)
    \/ \E key \in DialogKeys \ {"y"} : ProConfirmCreate(key, "cancelled")
    \/ \E key \in {"UP", "DOWN"} : ProSetNav(key)
    \/ \E env \in DialogEnv : ProSetEnter(env)
    \/ ProSetSpace
    \/ ProSetSave
    \/ ProSetEsc
    \/ ProSetOther
    \/ \E text \in {"", PoolDir, SnapDir} : ProEditCommit(text)
    \/ ProEditCancel

SpecSession == InitSession /\ [][NextSession]_vars

\* Listings: each front-end over every content of the snapshots directory,
\* the directory being there or not; the operator browses and leaves.
ListingConfigs ==
    {[DEFAULT_CONFIG EXCEPT !.snapshots_dir = d] : d \in {SnapDir, NoDir}}

InitListing ==
    /\ variant \in {"pro", "cli", "tui"}
    /\ display_name = NoName
    /\ snaps \in SUBSET NameUniverse
    /\ pool = InitPool
    /\ clock = 1
    /\ calls = <<>>
    /\ last = NoRestore
    /\ restores = 0
    /\ cloned = FALSE
    /\ config \in ListingConfigs
    /\ config_file = FileOf(json_dump(config))
    /\ writable = TRUE
    /\ process = NoProcess
    /\ output_lines = <<>>
    /\ typeahead = <<>>
    /\ input_mode = "timeout"
    /\ comboBox = [items |-> <<>>, index |-> -1]
    /\ workers = <<>>
    /\ current_screen = "main"
    /\ selected_row = 0
    /\ selected_col = 0
    /\ status_message = ""
    /\ status_timeout = 0
    /\ reboot_needed = FALSE
    /\ pc = IF variant = "pro" THEN "loop" ELSE "start"
    /\ pending = NoPending
    /\ global_row = 0
    /\ current_col = 0

NextListing ==
    \/ ProIdle
    \/ ProQuit
    \/ ProMainEmpty
    \/ \E key \in NavKeys : ProNav(key)
    \/ ProToSettings
    \/ ProRefresh
    \/ \E env \in DialogEnv : ProPurgeKey(env)
    \/ \E key \in DialogKeys : ProConfirmPurge(key)
    \/ \E key \in {"UP", "DOWN"} : ProSetNav(key)
    \/ ProSetEsc
    \/ CliList
    \/ \E ans \in Answers : CliRun(0, NoFault, ans)
    \/ TuiStart
    \/ TuiQuit
    \/ \E key \in NavKeys : TuiNav(key)

SpecListing == InitListing /\ [][NextListing]_vars

\* Snapshot creation: the pro front-end, the operator asking for new
\* snapshots, the tool running and the operator pressing keys meanwhile.
InitCreate ==
    /\ InitRun({"pro"}, {{"@home.1"}}, TRUE)

NextCreate ==
    \/ ProIdle
    \/ ProQuit
    \/ \E outcome \in CreateOutcomes : ProCreateKey(NoFault, outcome)
    \/ \E key \in {"n", "ESC", "other"} : ProConfirmCreate(key, "ok")
    \/ \E found \in BOOLEAN, script \in Scripts, rc \in ExitCodes :
          CreateOpen(found, script, rc)
    \/ \E key \in {"ESC", "other"} : KeyPress(key)
    \/ ChildEmits
    \/ ChildExits
    \/ CreateGetch
    \/ CreateReadline
    \/ CreateRaises
    \/ CreatePoll
    \/ CreateAnyKey

SpecCreate == InitCreate /\ [][NextCreate]_vars

\* What CONFIG_FILE can hold when the front-end is started: nothing, text
\* that is not JSON, the defaults, some of the keys, and keys the program
\* does not know.
ConfigFiles ==
    {NoFile, CorruptFile,
     FileOf(json_dump(DEFAULT_CONFIG)),
     FileOf([auto_cleanup |-> "true"]),
     FileOf([extra |-> "true"]),
     FileOf([confirm_actions |-> "false", extra |-> "\"x\"",
             btr_pool_dir |-> "\"/x\""])}

\* main(): the front-end is started again; TUIApp.__init__ builds a Config,
\* which loads CONFIG_FILE.
ProStart ==
    /\ variant = "pro" /\ pc = "exited"
    /\ config' = load(config_file)
    /\ UI("main", 0, 0, "", 0, FALSE)
    /\ pc' = "loop"
    /\ pending' = NoPending
    /\ input_mode' = "timeout"
    /\ UNCHANGED <<variant, display_name, qtVars, diskVars, process, output_lines,
                   typeahead, fsVars, logVars, tuiVars>>

\* Config.set called with a key the program does not define.  No handler
\* does; the method is there for any caller.
ConfigSetCall(key, value) ==
    /\ variant = "pro" /\ pc = "loop"
    /\ key \notin DOMAIN DEFAULT_CONFIG
    /\ config' = ConfigSet(config, key, value)
    /\ UNCHANGED <<variant, display_name, qtVars, diskVars, createVars, fsVars, logVars,
                   uiVars, pc, pending, tuiVars>>

\* The file system starts or stops accepting writes of CONFIG_FILE.
WritableChanges ==
    /\ writable' = ~writable
    /\ UNCHANGED <<variant, display_name, qtVars, config_file, createVars, fsVars,
                   logVars, config, uiVars, pc, pending, tuiVars>>

\* Settings: the pro front-end started on whatever CONFIG_FILE holds, the
\* operator on the settings screen.
InitSettings ==
    /\ variant = "pro"
    /\ display_name = NoName
    /\ snaps = {"@home.1", "@home.2"}
    /\ pool = InitPool
    /\ clock = 1
    /\ calls = <<>>
    /\ last = NoRestore
    /\ restores = 0
    /\ cloned = FALSE
    /\ config_file \in ConfigFiles
    /\ config = load(config_file)
    /\ writable \in BOOLEAN
    /\ process = NoProcess
    /\ output_lines = <<>>
    /\ typeahead = <<>>
    /\ input_mode = "timeout"
    /\ comboBox = [items |-> <<>>, index |-> -1]
    /\ workers = <<>>
    /\ current_screen = "main"
    /\ selected_row = 0
    /\ selected_col = 0
    /\ status_message = ""
    /\ status_timeout = 0
    /\ reboot_needed = FALSE
    /\ pc = "loop"
    /\ pending = NoPending
    /\ global_row = 0
    /\ current_col = 0

NextSettings ==
    \/ ProIdle
    \/ ProQuit
    \/ ProStart
    \/ \E key \in {"UP", "DOWN"} : ProNav(key)
    \/ ProToSettings
    \/ \E key \in {"UP", "DOWN"} : ProSetNav(key)
    \/ \E env \in DialogEnv : ProSetEnter(env)
    \/ ProSetSpace
    \/ ProSetSave
    \/ ProSetEsc
    \/ ProSetOther
    \/ \E text \in {"", PoolDir, SnapDir, NoDir} : ProEditCommit(text)
    \/ ProEditCancel
    \/ ConfigSetCall("extra", "x")
    \/ WritableChanges

SpecSettings == InitSettings /\ [][NextSettings]_vars

\* draw_main_screen (pro) and display_snapshots (cli) format an entry of the
\* listing.
FormatEntry(snapshot) ==
    /\ variant \in {"pro", "cli"} /\ pc = "loop"
    /\ snapshot \in ListDir(config.snapshots_dir)
    /\ IF variant = "pro" THEN Qualifies(snapshot) ELSE cli_Qualifies(snapshot)
    /\ display_name' =
          [snapshot |-> snapshot] @@
          (IF variant = "pro"
           THEN format_snapshot_name(config.show_timestamps, snapshot)
           ELSE cli_format_snapshot_name(snapshot))
    /\ UNCHANGED <<variant, qtVars, diskVars, createVars, fsVars, logVars, config,
                   uiVars, pc, pending, tuiVars>>

\* The names formatted: suffixes that are timestamps, in either format, that
\* nearly are, and that are not.
FormatNames ==
    {"@.20240131_235959", "@home.20240229_000000", "@home.20230229_000000",
     "@.20240131T2359", "@.2024131_235959", "@.20240131_235960",
     "@.20240131_2359599", "@custom.20241301_000000", "@.1", "@home.2.old",
     "@home.", "@x.20240132T0000"}

\* A listing of one or two of the names, drawn by pro with timestamps shown or
\* hidden, or printed by cli.
InitFormat ==
    /\ variant \in {"pro", "cli"}
    /\ display_name = NoName
    /\ snaps \in {names \in SUBSET FormatNames : Cardinality(names) \in {1, 2}}
    /\ pool = InitPool
    /\ clock = 1
    /\ calls = <<>>
    /\ last = NoRestore
    /\ restores = 0
    /\ cloned = FALSE
    /\ config \in IF variant = "pro"
                  THEN {[DEFAULT_CONFIG EXCEPT !.show_timestamps = show] :
                           show \in BOOLEAN}
                  ELSE {DEFAULT_CONFIG}
    /\ config_file = FileOf(json_dump(config))
    /\ writable = TRUE
    /\ process = NoProcess
    /\ output_lines = <<>>
    /\ typeahead = <<>>
    /\ input_mode = "timeout"
    /\ comboBox = [items |-> <<>>, index |-> -1]
    /\ workers = <<>>
    /\ current_screen = "main"
    /\ selected_row = 0
    /\ selected_col = 0
    /\ status_message = ""
    /\ status_timeout = 0
    /\ reboot_needed = FALSE
    /\ pc = "loop"
    /\ pending = NoPending
    /\ global_row = 0
    /\ current_col = 0

NextFormat == \E snapshot \in FormatNames : FormatEntry(snapshot)

SpecFormat == InitFormat /\ [][NextFormat]_vars

\* The graphical front-end over a directory that changes under it.
InitQt == InitRun({"qt"}, {{"@.1", "@home.1"}}, TRUE)

NextQt ==
    \/ \E i \in 0..(Cardinality(QtNames) + 1) : QtSelect(i)
    \/ QtBrowse
    \/ \E name \in QtNames : QtDirChanges(name)
    \/ restoreSnapshot
    \/ \E yes \in BOOLEAN : QtAnswerDelete(yes)
    \/ \E yes \in BOOLEAN : QtAnswerReboot(yes)
    \/ \E i \in DOMAIN workers : CommandWorkerRun(i)
    \/ \E i \in DOMAIN workers : onCommandFinished(i)
    \/ QtAbort
    \/ QtExit

SpecQt == InitQt /\ [][NextQt]_vars

---------------------------------------------------------------------------
\* The contract of restore, against the runs above.

\* Some restore has run and `last`, `calls` describe it.
Restored == restores > 0

\* The i-th primitive of the latest restore was cmd and ended as ok.
Ran(i, cmd, ok) == Len(calls) >= i /\ calls[i].cmd = cmd /\ calls[i].ok = ok

\* The latest restore invoked cmd at all.
Invoked(cmd) == \E i \in 1..Len(calls) : calls[i].cmd = cmd

\* The place of a primitive in the order rename, clone, cleanup.
StepNo(cmd) == IF cmd = "mv" THEN 1 ELSE IF cmd = "snapshot" THEN 2 ELSE 3

\* C1: in every front-end a restore runs rename, clone, cleanup in that
\* order and stops at the first failure: no primitive is invoked after one
\* that failed, so no clone follows a failed rename and no cleanup a failed
\* clone.
C1_StopsAtFirstFailure ==
    \A i \in 1..Len(calls) : \A j \in 1..(i - 1) :
        /\ calls[j].ok
        /\ StepNo(calls[j].cmd) < StepNo(calls[i].cmd)

\* C2: the clone is invoked only when nothing is at the target path, and one
\* restore adds at most one .BROKEN sibling.
C2_CloneOntoFreePath ==
    /\ \A i \in 1..Len(calls) : calls[i].cmd = "snapshot" => ~calls[i].dstExisted
    /\ last.made <= 1

\* C3: in pro a restore of an entry of group p targets the subvolume named p,
\* and returns success when its rename and clone succeeded.
C3_EveryPrefixRestores ==
    (variant = "pro" /\ Restored) =>
        /\ last.target = last.prefix
        /\ StepsDone(calls) => last.ok

\* C4: after a pro restore of entry E onto a live subvolume returned success,
\* the target holds E and what was live is held by a .BROKEN sibling, unless
\* the cleanup removed it.
C4_ContentAfterSuccess ==
    (variant = "pro" /\ Restored /\ last.ok /\ last.prev # "") =>
        /\ LiveContent(pool, last.target) = last.snapshot
        /\ \/ Invoked("delete")
           \/ \E q \in BrokenSiblings(pool) :
                 /\ StartsWith(q[1], last.target \o ".BROKEN")
                 /\ pool[q] = last.prev

\* C5: a restore whose rename succeeds and whose clone fails reports failure,
\* leaves the target absent and the displaced copy in the pool, runs no
\* cleanup, leaves the reboot flag as it was and opens no reboot prompt.
C5_CloneFailure ==
    [][(restores' = restores + 1 /\ Len(calls') >= 2
           /\ calls'[1].cmd = "mv" /\ calls'[1].ok
           /\ calls'[2].cmd = "snapshot" /\ ~calls'[2].ok) =>
          /\ ~last'.ok
          /\ Len(calls') = 2
          /\ <<last'.target>> \notin DOMAIN pool'
          /\ \E q \in DOMAIN pool' :
                 q[1] = last'.broken /\ pool'[q] = last'.prev
          /\ reboot_needed' = reboot_needed
          /\ pc' \notin {"confirm_reboot_after", "rebooted"}]_vars

\* The clone of a pro restore failed after its rename.
C5_Witness ==
    /\ variant = "pro" /\ Restored
    /\ Ran(1, "mv", TRUE) /\ Ran(2, "snapshot", FALSE)
    /\ ~last.ok /\ pc = "loop"

\* C6: in pro a failure of the cleanup delete, after rename and clone
\* succeeded, leaves the restore a success and the reboot flag set.
C6_CleanupFailureKeepsSuccess ==
    (variant = "pro" /\ Ran(1, "mv", TRUE) /\ Ran(2, "snapshot", TRUE)
        /\ Ran(3, "delete", FALSE)) =>
        last.ok /\ reboot_needed

\* C7: a restore (pro, cli) onto a target that does not exist attempts no
\* rename and succeeds when its clone does.
C7_AbsentTargetSkipsRename ==
    (variant \in {"pro", "cli"} /\ Restored /\ last.target # NoTarget
        /\ last.prev = "") =>
        /\ ~Invoked("mv")
        /\ Ran(1, "snapshot", TRUE) => last.ok

\* C8: in pro every displaced subvolume is a .BROKEN sibling of its own: no
\* displacement lands inside an earlier .BROKEN path.
C8_BrokenSiblingsDistinct ==
    variant = "pro" =>
        \A q \in DOMAIN pool : IsBrokenName(q[1]) => Len(q) = 1

\* C9: in every state of a pro session the reboot flag is set only if some
\* restore of the session got through its rename and its clone.
C9_FlagOnlyAfterRestore == reboot_needed => cloned

\* The flag is set and the operator has moved on to SETTINGS.
C9_Witness ==
    /\ reboot_needed /\ cloned
    /\ pc = "loop" /\ current_screen = "settings"

\* C10: in a pro session no step clears the reboot flag once it is set.
C10_FlagSticky == [][reboot_needed => reboot_needed']_vars

\* The flag is set and a later restore has failed.
C10_Witness ==
    /\ reboot_needed /\ restores = 2 /\ ~last.ok
    /\ pc = "loop"

---------------------------------------------------------------------------
\* The controller's loop, against the sessions above.

\* C11: in a pro session no failure of an operation ends the loop: the
\* process never ends on an exception, only by quit or by a reboot.
C11_LoopSurvivesFailures == variant = "pro" => pc # "crashed"


\* The purge confirmation was answered yes in this step.
PurgeAnsweredYes ==
    /\ variant = "pro" /\ pc = "confirm_purge"
    /\ pc' # "confirm_purge" /\ status_message' # "Purge cancelled"

\* The names a purge leaves when every deletion succeeds: of each group its
\* first entry, and whatever is in no group.
KeepNewest(names) ==
    {f \in names :
        Qualifies(f) => f = snapshot_groups(names)[BeforeDot(f)][1]}

\* What the controller shows for a purge that returned count.
PurgeReport(count) ==
    IF count = 0 THEN "No old snapshots to purge"
    ELSE "Purged " \o ToString(count) \o " old snapshots successfully"

\* C12: a confirmed purge (no deletion failing) leaves of every group of the
\* listing exactly its newest entry and removes the others.
C12_PurgeKeepsNewest ==
    [][PurgeAnsweredYes => snaps' = KeepNewest(snaps)]_vars

\* C13: a confirmed purge hands the controller the number of entries it
\* deleted: the loop goes on and reports that count.
C13_PurgeCountsDeletions ==
    [][PurgeAnsweredYes =>
          /\ pc' = "loop"
          /\ snaps' \subseteq snaps
          /\ status_message' = PurgeReport(Cardinality(snaps \ snaps'))]_vars

---------------------------------------------------------------------------
\* The listing, against every content of the snapshots directory.

\* The entries of a sequence.
Entries(seq) == {seq[i] : i \in 1..Len(seq)}

\* The prefixes a name of the directory can have.
PrefixUniverse == {BeforeDot(f) : f \in NameUniverse} \cup {"@home.2", "home"}

\* groups is the grouping of names by the prefix before the first dot.
GroupedByPrefix(groups, names) ==
    /\ \A f \in NameUniverse, p \in PrefixUniverse :
          (p \in DOMAIN groups /\ f \in Entries(groups[p]))
              <=> /\ f \in names
                  /\ StartsWith(f, "@")
                  /\ HasDot(f)
                  /\ p = BeforeDot(f)
    /\ DOMAIN groups \subseteq PrefixUniverse
    /\ \A p \in DOMAIN groups :
          Len(groups[p]) = Cardinality(Entries(groups[p]))

\* C14: a name of the snapshots directory is in group p exactly when it
\* starts with @, contains a dot and p is what precedes its first dot; names
\* that do not start with @ or have no dot are in no group, and a qualifying
\* name is in one group, once.  Holds for the listing of the pro front-end and
\* of the script.
C14_GroupingByPrefix ==
    /\ GroupedByPrefix(Groups, ListDir(config.snapshots_dir))
    /\ GroupedByPrefix(CliGroups, ListDir(config.snapshots_dir))

\* The directory holds qualifying names of several groups next to a name
\* without @, a name without a dot and a name with two dots, and was listed.
C14_Witness ==
    /\ variant = "cli" /\ pc = "loop"
    /\ config.snapshots_dir = SnapDir
    /\ snaps = NameUniverse
    /\ "@home.2.old" \in Entries(Groups["@home"])
    /\ "@home.2.old" \in Entries(CliGroups["@home"])


\* prefixes lists the groups with @ first and the others ascending.
AtFirstThenAscending(groups, prefixes) ==
    /\ Entries(prefixes) = DOMAIN groups
    /\ \A i, j \in 1..Len(prefixes) :
          i < j => /\ prefixes[j] # "@"
                   /\ prefixes[i] = "@" \/ StrLess(prefixes[i], prefixes[j])

\* Every group lists its entries in descending order of the full name.
NewestFirst(groups) ==
    \A p \in DOMAIN groups :
        \A i, j \in 1..Len(groups[p]) :
            i < j => StrLess(groups[p][j], groups[p][i])

\* C15: the listing gives the groups with the prefix @ first and the other
\* prefixes in ascending order, and the entries of each group in descending
\* order of the full name.  Holds for the pro front-end and for the script.
C15_ListingOrder ==
    /\ AtFirstThenAscending(Groups, Prefixes)
    /\ NewestFirst(Groups)
    /\ AtFirstThenAscending(CliGroups, CliPrefixes)
    /\ NewestFirst(CliGroups)

\* Three groups were listed, one of them with three entries.
C15_Witness ==
    /\ variant = "cli" /\ pc = "loop"
    /\ CliPrefixes = <<"@", "@custom", "@home">>
    /\ Prefixes = CliPrefixes
    /\ CliGroups["@home"] = <<"@home.2.old", "@home.2", "@home.1">>
    /\ Groups["@home"] = CliGroups["@home"]


\* C16: listing a snapshots directory that is missing gives an empty mapping
\* and does not end the session: the front-end that lists it goes on to
\* accept input.
C16_MissingDirectoryKeepsSession ==
    [][DirMissing(config.snapshots_dir) =>
          /\ variant = "pro" => DOMAIN Groups = {} /\ pc' # "crashed"
          /\ pc = "start" => pc' = "loop"]_vars


\* The group under the cursor of the pro front-end, <<>> when the column is
\* not one of the listing.
ActiveGroup(col) ==
    IF col \in 0..(Len(Prefixes) - 1) THEN Groups[Prefixes[col + 1]] ELSE <<>>

\* The column under the cursor of the plain tui.
TuiColumn(col) == IF col = 0 THEN root_snapshots ELSE home_snapshots

\* The cursor is on an entry of a group of the listing.
CursorValid ==
    /\ (InLoop("main") /\ Prefixes # <<>>) =>
          /\ selected_col \in 0..(Len(Prefixes) - 1)
          /\ selected_row \in 0..(Len(ActiveGroup(selected_col)) - 1)
    /\ (variant = "tui" /\ pc = "loop") =>
          /\ current_col \in {0, 1}
          /\ global_row \in 0..(Len(TuiColumn(current_col)) - 1)

\* A key on the main screen moves the cursor by one row inside its group, or
\* by one group with the row brought into the new group.
CursorMoves ==
    /\ (InLoop("main") /\ InLoop("main")' /\ Prefixes # <<>>) =>
          IF selected_col' = selected_col
          THEN selected_row' \in {selected_row - 1, selected_row,
                                  selected_row + 1}
          ELSE /\ selected_col' \in {selected_col - 1, selected_col + 1}
               /\ selected_row' =
                     Min(selected_row, Len(ActiveGroup(selected_col')) - 1)
    /\ (variant = "tui" /\ pc = "loop" /\ pc' = "loop") =>
          IF current_col' = current_col
          THEN global_row' \in {global_row - 1, global_row, global_row + 1}
          ELSE global_row' =
                  Min(global_row, Len(TuiColumn(current_col')) - 1)

\* C17: on a given listing, after any sequence of arrow keys and screen
\* switches the cursor indexes an entry of a group of the listing (no group
\* of a listing is empty); a vertical move stays within the group and a
\* horizontal move brings the row into the new group.
C17_CursorStaysValid == []CursorValid /\ [][CursorMoves]_vars

\* The cursor was moved to the last group of three, on its last row.
C17_Witness ==
    /\ InLoop("main")
    /\ Len(Prefixes) = 3
    /\ selected_col = 2
    /\ selected_row = Len(ActiveGroup(2)) - 1
    /\ selected_row > 0


---------------------------------------------------------------------------
\* The keys of the main screen and the modal dialogs, against the sessions.

\* C18: on MAIN with no modal open, whatever the listing, an empty one
\* included, the key s switches to SETTINGS, the key i leads to the
\* confirmation of a snapshot creation and the key p to the confirmation of a
\* purge.
C18_MainKeysOnAnyListing ==
    InLoop("main") =>
        /\ ENABLED (ProToSettings /\ current_screen' = "settings")
        /\ ENABLED (/\ \E outcome \in CreateOutcomes :
                          ProCreateKey(NoFault, outcome)
                    /\ config.confirm_actions => pc' = "confirm_create")
        /\ ENABLED (/\ ProPurgeKey(NoFault)
                    /\ config.confirm_actions => pc' = "confirm_purge")


\* The key h was pressed on MAIN in this step.
PressedH == \E env \in OneFault : ProRebootKey(env)

\* C19: reboot is run only with the reboot flag set, and the key h with the
\* flag clear runs no reboot and changes nothing but the status message.
C19_RebootOnlyWithFlag ==
    [][/\ (pc # "rebooted" /\ pc' = "rebooted") => reboot_needed'
       /\ (PressedH /\ ~reboot_needed) =>
             /\ pc' = "loop"
             /\ UNCHANGED <<variant, display_name, qtVars, diskVars, createVars, fsVars,
                            logVars, config, current_screen, selected_row, selected_col,
                            reboot_needed, pending, tuiVars>>]_vars

\* The key h was answered with the flag clear.
C19_Witness ==
    /\ InLoop("main")
    /\ ~reboot_needed
    /\ status_message = "No reboot needed"


\* A confirmation or the text edit is open.
ModalStates ==
    {"confirm_restore", "confirm_reboot_after", "confirm_reboot_h",
     "confirm_purge", "confirm_create", "edit"}

ModalOpen == variant = "pro" /\ pc \in ModalStates

\* C20: while a confirmation or the text edit is open, a key that does not
\* resolve it changes neither the screen, the cursor, the configuration nor
\* the reboot flag, runs no operation on the file system and does not quit
\* the loop.
C20_ModalConsumesKeys ==
    [][ModalOpen =>
          /\ pc' # "exited"
          /\ pc' = pc =>
                UNCHANGED <<current_screen, selected_row, selected_col,
                            config, reboot_needed, fsVars, logVars>>]_vars

\* The confirmation of a restore is open on the chosen snapshot.
C20_Witness ==
    /\ AtModal("confirm_restore")
    /\ pending.snapshot = "@home.1"
    /\ current_screen = "main"


---------------------------------------------------------------------------
\* The settings and their file, against the settings sessions.

\* The key under the cursor of the settings screen.
SettingAtCursor == settings_keys[selected_row + 1]

\* ENTER was pressed on a boolean key of SETTINGS in this step.
SelectsBool ==
    /\ InLoop("settings") /\ SettingAtCursor \in BoolKeys
    /\ \E env \in DialogEnv : ProSetEnter(env)

\* The text edit was committed with a value in this step.
CommitsText(text) == text # "" /\ ProEditCommit(text)

\* What CONFIG_FILE holds reads back as data, key for key.
Persisted(file, data) ==
    /\ file.state = "file"
    /\ DOMAIN file.text = DOMAIN data
    /\ \A k \in DOMAIN data : Decode(file.text[k]) = data[k]
    /\ load(file) = data

\* C21: on SETTINGS, select on a boolean key negates it and a committed text
\* replaces the value of a non-boolean key; after such a change whose save
\* succeeds the file holds the configuration in memory; ESC returns to MAIN.
C21_SettingsPersist ==
    [][/\ SelectsBool =>
             /\ config' = [config EXCEPT ![SettingAtCursor] = ~@]
             /\ writable => Persisted(config_file', config')
       /\ \A text \in {PoolDir, SnapDir, NoDir} :
             CommitsText(text) =>
                /\ pending.key \notin BoolKeys
                /\ config' = [config EXCEPT ![pending.key] = text]
                /\ writable => Persisted(config_file', config')
       /\ ProSetEsc => current_screen' = "main"]_vars

\* A directory setting was replaced and the file, which held something else
\* at the start, holds the new configuration.
C21_Witness ==
    /\ InLoop("settings")
    /\ status_message = "Updated btr_pool_dir"
    /\ config.btr_pool_dir = NoDir
    /\ config.auto_cleanup
    /\ Persisted(config_file, config)


\* C22: after any sequence of loads and sets the configuration has exactly
\* the fixed keys: a load takes the known keys of the file, ignores the
\* others and leaves a key the file lacks at its default, and a set on an
\* unknown key leaves the configuration as it was.
C22_FixedKeySet ==
    /\ [](DOMAIN config = DOMAIN DEFAULT_CONFIG)
    /\ [][/\ ProStart =>
                \A k \in DOMAIN DEFAULT_CONFIG :
                    config'[k] =
                        IF config_file.state = "file"
                           /\ k \in DOMAIN config_file.text
                        THEN Decode(config_file.text[k])
                        ELSE DEFAULT_CONFIG[k]
          /\ ConfigSetCall("extra", "x") => config' = config]_vars

\* The front-end runs on a file that has an unknown key, two known keys and
\* lacks the others.
C22_Witness ==
    /\ variant = "pro" /\ pc = "loop"
    /\ "extra" \in DOMAIN config_file.text
    /\ "auto_cleanup" \notin DOMAIN config_file.text
    /\ config.btr_pool_dir = NoDir
    /\ ~config.confirm_actions
    /\ config.auto_cleanup = DEFAULT_CONFIG.auto_cleanup


\* A handler of SETTINGS called Config.save in this step.
Saves ==
    \/ ProSetSave
    \/ SelectsBool
    \/ \E text \in {PoolDir, SnapDir, NoDir} : CommitsText(text)

\* C23: when the save of a configuration change fails the operator is told:
\* the status differs from the one shown when the save succeeds, and the
\* session goes on.
C23_SaveFailureReported ==
    [][(Saves /\ ~writable) =>
          /\ pc' = "loop"
          /\ status_message' \notin
                {"Settings saved manually!"}
                \cup {"Toggled " \o k : k \in BoolKeys}
                \cup {"Updated " \o k : k \in DOMAIN DEFAULT_CONFIG}]_vars


---------------------------------------------------------------------------
\* The status line, against the sessions.

\* C24: a draw cycle takes one off the budget of a pending status message
\* and, the budget used up, clears the message.
C24_StatusCountsDown ==
    (variant = "pro" /\ pc = "loop") =>
        /\ (status_message # "" /\ status_timeout > 0) =>
              ENABLED (ProIdle /\ status_timeout' = status_timeout - 1)
        /\ status_timeout <= 0 =>
              ENABLED (ProIdle /\ status_message' = "")

\* C25: whenever the reboot flag is set the status line shows the reboot
\* banner, whatever status message and budget are pending, and a draw cycle
\* leaves the flag and the banner in place.
C25_RebootBannerFirst ==
    /\ [](variant = "pro" /\ reboot_needed =>
             banner(reboot_needed, status_message, status_timeout)
                = "REBOOT REQUIRED - Press H to reboot system")
    /\ [][(ProIdle /\ reboot_needed) =>
             /\ reboot_needed'
             /\ banner(reboot_needed', status_message', status_timeout')
                   = "REBOOT REQUIRED - Press H to reboot system"]_vars

\* The flag is set while a status message with budget left is pending.
C25_Witness ==
    /\ InLoop("main")
    /\ reboot_needed
    /\ status_message = "Reboot cancelled"
    /\ status_timeout > 0


---------------------------------------------------------------------------
\* Snapshot creation, against the creation sessions.

\* The loop of create_snapshot reads the cancel key in this step.
ReadsCancel ==
    /\ pc = "create_getch" /\ typeahead # <<>> /\ Head(typeahead) = "ESC"
    /\ CreateGetch

C27_ExitStatusReported ==
    [][CreateAnyKey =>
          /\ process.state = "exited"
          /\ (status_message' = "New snapshots created successfully!")
                <=> (process.returncode = 0)
          /\ process.returncode # 0 =>
                status_message' =
                   "Snapshot creation failed: btrbk completed with return code "
                      \o ToString(process.returncode)]_vars

\* The tool ended with status 2 and the controller shows it.
C27_Witness ==
    /\ InLoop("main")
    /\ process.state = "exited"
    /\ process.returncode = 2
    /\ status_message =
          "Snapshot creation failed: btrbk completed with return code 2"


\* C28: while the child runs, silent or not, neither the read of its output
\* nor the poll for a key makes the loop of create_snapshot wait: its next
\* step can always be taken, so a cancel key is read within a bounded number
\* of rounds.
C28_LoopNeverWaits ==
    (/\ variant = "pro"
     /\ pc \in {"create_getch", "create_read", "create_poll"}
     /\ process.state = "running")
        => ENABLED (CreateGetch \/ CreateReadline \/ CreatePoll)


\* C29: when create_snapshot shows its completion every line the tool wrote
\* that is not blank is on the display: none is left in the pipe.
C29_NoLineDropped ==
    (variant = "pro" /\ pc = "create_wait") =>
        \A i \in 1..Len(process.pipe) : process.pipe[i] = ""


---------------------------------------------------------------------------
\* Declined confirmations, against the restores.

\* The operator declined the confirmation of a restore, a purge or a
\* snapshot creation in this step.
Declines ==
    \/ \E key \in {"n", "ESC"} :
          \/ ProConfirmRestore(key, NoFault)
          \/ ProConfirmPurge(key)
          \/ ProConfirmCreate(key, "ok")
    \/ \E env \in CommandEnv, ans \in Answers : TuiEnter(FALSE, env, ans)

\* C30: a declined confirmation runs no rename, clone, delete or reboot and
\* leaves the screen, the cursor, the configuration and the reboot flag as
\* they were; only the status message changes.
C30_DeclineChangesNothing ==
    [][Declines =>
          /\ pc' = "loop"
          /\ UNCHANGED <<fsVars, logVars, config, current_screen,
                         selected_row, selected_col, reboot_needed,
                         tuiVars>>]_vars


---------------------------------------------------------------------------
\* The graphical front-end: workers and the list shown.

\* The place of a command in a restore: rename, clone, then what follows.
QtRank(command) ==
    IF command = "mv" THEN 1 ELSE IF command = "snapshot" THEN 2 ELSE 3

\* C31: in the graphical front-end a command of a restore has run only when
\* every earlier command of that restore has completed: the clone after the
\* rename, the delete and the reboot after the clone.
C31_WorkersInOrder ==
    \A i, j \in DOMAIN workers :
        (/\ workers[i].r = workers[j].r
         /\ QtRank(workers[i].command) < QtRank(workers[j].command)
         /\ workers[j].state # "started")
        => workers[i].state # "started"

\* C37: the snapshot a restore of the graphical front-end acts on is the item
\* that is current in the list shown.
C37_RestoresItemShown ==
    [][(variant = "qt" /\ restores' = restores + 1)
          => last'.snapshot = comboBox.items[comboBox.index + 1]]_vars


---------------------------------------------------------------------------
\* Display formatting.

\* t is a timestamp as displayed: "YYYY-MM-DD HH:MM:SS".
IsStamp(t) ==
    /\ Len(t) = 19
    /\ \A i \in 1..19 :
          IF i \in {5, 8} THEN CharAt(t, i) = "-"
          ELSE IF i = 11 THEN CharAt(t, i) = " "
          ELSE IF i \in {14, 17} THEN CharAt(t, i) = ":"
          ELSE \E k \in 1..10 : CharAt("0123456789", k) = CharAt(t, i)

\* text is name followed by a timestamp in parentheses.
IsStamped(text, name) ==
    /\ Len(text) = Len(name) + 22
    /\ SubSeq(text, 1, Len(name) + 2) = name \o " ("
    /\ IsStamp(SubSeq(text, Len(name) + 3, Len(name) + 21))
    /\ CharAt(text, Len(text)) = ")"

\* The part of name after its first dot is digits around one separator out of
\* seps, the only shape a timestamp pattern takes.
SuffixLikeStamp(name, seps) ==
    LET suffix == SubSeq(name, Len(BeforeDot(name)) + 2, Len(name))
        marks == {i \in 1..Len(suffix) :
                     \A k \in 1..10 : CharAt("0123456789", k) # CharAt(suffix, i)}
    IN /\ Cardinality(marks) = 1
       /\ \A i \in marks : CharAt(suffix, i) \in seps /\ i > 6 /\ i < Len(suffix)

\* C32: formatting an entry for display raises nothing and gives the raw name
\* or the raw name followed by a timestamp in parentheses; it gives the raw
\* name when timestamps are switched off (pro) and when the suffix has not the
\* shape of a timestamp the front-end knows.
C32_FormatFallsBack ==
    display_name # NoName =>
        /\ display_name.raised = ""
        /\ \/ display_name.text = display_name.snapshot
           \/ IsStamped(display_name.text, display_name.snapshot)
        /\ (variant = "pro" /\ ~config.show_timestamps)
              => display_name.text = display_name.snapshot
        /\ ~SuffixLikeStamp(display_name.snapshot,
                            IF variant = "pro" THEN {"_"} ELSE {"_", "T"})
              => display_name.text = display_name.snapshot

\* An entry whose one-digit month is displayed as a timestamp, and one shown
\* raw because its date does not exist.
C32_Witness ==
    \/ /\ display_name.snapshot = "@.2024131_235959"
       /\ display_name.text = "@.2024131_235959 (2024-01-31 23:59:59)"
    \/ /\ display_name.snapshot = "@home.20230229_000000"
       /\ display_name.text = "@home.20230229_000000"


---------------------------------------------------------------------------
\* Confirmations (pro).

\* C33: a restore of pro that succeeded does not itself reboot the machine:
\* the step that runs the restore never ends in the reboot.
C33_RestoreAloneNeverReboots ==
    [][(variant = "pro" /\ restores' = restores + 1) => pc' # "rebooted"]_vars


\* create_snapshot ran in this step: handle_main_input set one of its statuses.
CreateRan ==
    /\ status_message' \in
          {"New snapshots created successfully!",
           "Snapshot creation failed: btrbk completed with return code 1",
           "Snapshot creation failed: Operation cancelled by user",
           "Snapshot creation failed: btrbk command not found"}
    /\ status_timeout' = Budget(150)
    /\ <<status_message', status_timeout'>> # <<status_message, status_timeout>>

\* C34: while confirm_actions is on, pro runs a restore, a purge, a create and
\* a reboot only in the step that answers the confirmation of that action.
C34_ActionsOnlyAfterYes ==
    [][(variant = "pro" /\ config.confirm_actions) =>
          /\ restores' = restores + 1 => pc = "confirm_restore"
          /\ (pc' = "crashed" /\ pc # "crashed") => pc = "confirm_purge"
          /\ CreateRan => pc = "confirm_create"
          /\ (pc' = "rebooted" /\ pc # "rebooted")
                => pc \in {"confirm_reboot_after", "confirm_reboot_h"}]_vars


---------------------------------------------------------------------------
\* Restores rejected at once (pro).

\* C38: a restore of pro whose snapshot type names no subvolume fails without
\* invoking a primitive, and leaves the pool, the snapshots, the configuration
\* and the reboot flag as they were; the controller is back in its loop.
C38_RejectedRestoreTouchesNothing ==
    [][(variant = "pro" /\ restores' = restores + 1 /\ last'.target = NoTarget)
          => /\ ~last'.ok
             /\ calls' = <<>>
             /\ UNCHANGED <<pool, snaps, config, config_file, reboot_needed>>
             /\ pc' = "loop"]_vars

\* A rejected restore of @custom.1 that followed a restore that succeeded:
\* the flag is still up.
C38_Witness ==
    /\ variant = "pro" /\ restores = 2
    /\ last.snapshot = "@custom.1" /\ last.target = NoTarget
    /\ reboot_needed /\ pc = "loop"


---------------------------------------------------------------------------
\* The row on SETTINGS (pro).

\* C39: while SETTINGS is the screen the selected row is one of the rows
\* 0..4 of the settings listed, and a change of screen, either way, puts the
\* row at 0.
C39_SettingsRowInRange ==
    /\ [](current_screen = "settings" =>
             /\ selected_row \in 0..(settings_count - 1)
             /\ selected_row + 1 \in DOMAIN settings_keys)
    /\ [][current_screen' # current_screen => selected_row' = 0]_vars

\* The last row of SETTINGS, for a listing whose MAIN has more than one row.
C39_Witness ==
    /\ current_screen = "settings" /\ selected_row = settings_count - 1
    /\ "@home" \in DOMAIN Groups /\ Len(Groups["@home"]) > 1


---------------------------------------------------------------------------
\* create_snapshot and the main loop around it.

\* C35: create_snapshot leaves the input mode of the main loop as it was:
\* whenever the main loop waits for a key it does so with its bounded
\* timeout, so that a draw cycle can pass without a key being pressed.
C35_InputModeRestored ==
    (variant = "pro" /\ pc = "loop" /\ current_screen = "main") =>
        (input_mode = "timeout" /\ ENABLED ProIdle)


\* C36: whenever create_snapshot has returned, by whichever path, the child
\* it started runs no more.
C36_NoChildLeftBehind ==
    (variant = "pro" /\ pc = "loop") => process.state # "running"

====
